---- MODULE Spec2Model ----
(***************************************************************************)
(* Store-and-forward telemetry pipeline of ReliefWings (Raspberry Pi side). *)
(*                                                                         *)
(* Groups of state, each with a specification of its own:                  *)
(*   Spec / FairSpec  main.py, DroneKitTelemetryClient: the sampling loop, *)
(*                    the offline buffer and the replay threads;           *)
(*   BufferSpec       database.py, TelemetryDatabase: the telemetry table; *)
(*   CommandSpec      database.py, TelemetryDatabase: the commands table;  *)
(*   DatabaseSpec     database.py, TelemetryDatabase: the three tables     *)
(*                    under cleanup_old_data;                              *)
(*   ReconnectSpec    websocket_client.py, WebSocketClient: connect, the   *)
(*                    socket callbacks and the reconnect policy;           *)
(*   SendSpec         websocket_client.py, WebSocketClient: the same with  *)
(*                    send_telemetry and send_command_ack;                 *)
(*   SamplingSpec     main.py's sampling loop next to a reconnecting       *)
(*                    WebSocketClient;                                     *)
(*   DispatchSpec     main.py, DroneKitTelemetryClient: on_ws_message,     *)
(*                    handle_command, execute_command, log_command;        *)
(*   ControllerSpec   drone_controller.py, DroneController:                *)
(*                    execute_command and the command-result callback;     *)
(*   PendingSpec      database.py, TelemetryDatabase: the commands table   *)
(*                    with get_pending_commands;                           *)
(*   ValidationSpec,  telemetry_processor.py, TelemetryProcessor:          *)
(*   FlightSpec       process_telemetry on samples that differ in what is  *)
(*                    validated, and in what the flight time depends on;   *)
(*   ProducerSpec     get_telemetry_data of main.py and of                 *)
(*                    drone_controller.py: the sequence numbers;           *)
(*   LifecycleSpec    main.py, DroneKitTelemetryClient: start, stop,       *)
(*                    telemetry_loop and send_heartbeat;                   *)
(*   HandshakeSpec    websocket_client.py, WebSocketClient: _on_open       *)
(*                    statement by statement, next to the senders.         *)
(* A specification leaves the variables of the other groups unchanged.     *)
(***************************************************************************)
EXTENDS Integers, Sequences, FiniteSets, TLC

(***************************************************************************)
(* Bounds of the model.                                                    *)
(***************************************************************************)
\* samples the sampling loop produces
MaxSamples == 3
\* producer clock readings: time.time() is the wall clock and may step back
MaxTs == 2
\* connections opened (each one spawns one replay thread)
MaxOpens == 2
\* rows one replay run selects: main.py says LIMIT 100, scaled down here
ReplayLimit == 2
\* rows ever inserted into TelemetryDatabase's table telemetry
MaxRows == 4
\* the limit argument of get_unsent_telemetry
MaxLimit == 2
\* commands ever stored
MaxCommands == 2
\* ticks of the database clock
MaxClock == 3
\* ticks of the database clock in a day (86400 seconds, scaled down)
Day == 1
\* the days argument of cleanup_old_data
MaxDays == 1
\* rows ever inserted into table logs
MaxLogs == 1
\* telemetry rows and commands stored in the runs that include cleanup
CleanupRows == 2
CleanupCommands == 1
\* WebSocketApp objects one WebSocketClient ever creates
MaxSocks == 3
\* self.max_reconnect_attempts: 10 in websocket_client.py, scaled down
MaxReconnectAttempts == 2
\* messages send_telemetry and send_command_ack hand to the socket
MaxSends == 1
\* messages main.py's on_ws_message receives
MaxMessages == 2
\* calls of DroneController.execute_command (their command ids)
MaxCalls == 2
\* samples one TelemetryProcessor processes
MaxProcessed == 3
\* largest ts of a sample given to the processor
MaxSampleTs == 2
\* calls of get_telemetry_data made on one producer
MaxReads == 4

(***************************************************************************)
(* Constants of the program.                                               *)
(***************************************************************************)
\* self.reconnect_interval = 5
BackoffFloor == 5
\* min(self.reconnect_interval * 2, 60)
BackoffCeiling == 60

VARIABLES
    \* ---- main.py, DroneKitTelemetryClient
    ws_connected,       \* self.ws.sock.connected
    sequence_number,    \* self.sequence_number
    telemetry,          \* rows of table telemetry, in id order (id = index)
    replay,             \* the send_buffered_data threads, one per open
    opens,              \* connections opened so far
    ticks,              \* history: per sample, what telemetry_loop did with it
    wire,               \* history: every message a ws.send() returned from
    \* ---- database.py, TelemetryDatabase: table telemetry
    db_telemetry,       \* the rows of table telemetry
    db_telemetry_seq,   \* AUTOINCREMENT: the largest id ever assigned
    db_ids,             \* history: the ids store_telemetry assigned, in order
    db_call,            \* the last call on the table and what it returned
    \* ---- database.py, TelemetryDatabase: table commands
    db_commands,        \* the rows of table commands
    db_commands_seq,    \* AUTOINCREMENT: the largest id ever assigned
    db_now,             \* CURRENT_TIMESTAMP, in ticks of the database clock
    cmd_call,
    was_terminal,       \* history: ids of commands that have been completed/failed
    \* ---- database.py, TelemetryDatabase: table logs and cleanup_old_data
    db_logs,            \* the rows of table logs
    db_logs_seq,        \* AUTOINCREMENT: the largest id ever assigned
    cleanup_call,       \* the last cleanup_old_data call
    \* ---- websocket_client.py, WebSocketClient
    connected,          \* self.connected
    reconnect_interval, \* self.reconnect_interval
    reconnect_attempts, \* self.reconnect_attempts
    ws,                 \* self.ws: the WebSocketApp created last (0: None)
    sock,               \* per WebSocketApp: its state and its callback thread
    connect_call,       \* per WebSocketApp: the connect() call that made it
    last_wait,          \* history: the wait of the latest sleep (0: none yet)
    opened_since,       \* history: a socket has opened since that sleep began
    gave_up,            \* history: _attempt_reconnect found the limit reached
    shutdown,           \* history: disconnect() has been called
    ws_sent,            \* messages self.ws.send() has returned from
    send_call,          \* the last send_telemetry / send_command_ack call
    \* ---- main.py, DroneKitTelemetryClient: commands
    received,           \* messages on_ws_message has been called with
    cmd_thread,         \* per message: the handle_command thread it started
    commands,           \* rows of main.py's table commands, in id order
    acked,              \* history: messages whose ACK ws.send() returned from
    \* ---- drone_controller.py, DroneController
    vehicle,            \* self.vehicle is not None
    command_result_callback,  \* self.command_result_callback is not None
    exec_call,          \* per command id: the execute_command call for it
    notified,           \* history, per command id: statuses the callback got
    \* ---- telemetry_processor.py, TelemetryProcessor
    last_telemetry,     \* self.last_telemetry
    telemetry_history,  \* self.telemetry_history
    total_processed,    \* self.stats['total_processed']
    proc_call,          \* the last process_telemetry call: its sample, its result
    \* ---- the two producers' get_telemetry_data
    seq_number,         \* DroneController.seq_number
    reads,              \* history, per producer: calls of get_telemetry_data
    emitted,            \* history, per producer: seq of the samples returned
    \* ---- main.py, DroneKitTelemetryClient: start, stop and the two loops
    running,            \* self.running
    loop_pc,            \* where telemetry_loop and send_heartbeat are
    stop_pc,            \* how far stop() has come
    hb_call,            \* the last pass of send_heartbeat: what became of it
    \* ---- websocket_client.py, WebSocketClient: what goes out on a socket
    handshake,          \* per WebSocketApp: how far its _on_open has come
    first_message       \* history, per WebSocketApp: the first message sent

pipeline_vars == <<ws_connected, sequence_number, telemetry, replay, opens,
                   ticks, wire>>
buffer_vars == <<db_telemetry, db_telemetry_seq, db_ids, db_call>>
command_vars == <<db_commands, db_commands_seq, db_now, cmd_call,
                  was_terminal>>

cleanup_vars == <<db_logs, db_logs_seq, cleanup_call>>

reconnect_vars == <<connected, reconnect_interval, reconnect_attempts, ws,
                    sock, connect_call, last_wait, opened_since,
                   gave_up, shutdown>>

send_vars == <<ws_sent, send_call>>
dispatch_vars == <<received, cmd_thread, commands, acked>>
controller_vars == <<vehicle, command_result_callback, exec_call, notified>>
processor_vars == <<last_telemetry, telemetry_history, total_processed,
                    proc_call>>
producer_vars == <<seq_number, reads, emitted>>
lifecycle_vars == <<running, loop_pc, stop_pc, hb_call>>
handshake_vars == <<handshake, first_message>>

\* what start, stop and the two loops leave alone besides the pipeline
not_pipeline_frame == <<buffer_vars, command_vars, cleanup_vars,
                        reconnect_vars, send_vars, dispatch_vars,
                        controller_vars, processor_vars, producer_vars,
                        handshake_vars>>

vars == <<pipeline_vars, buffer_vars, command_vars, cleanup_vars,
          reconnect_vars, send_vars, dispatch_vars, controller_vars,
          processor_vars, producer_vars, lifecycle_vars, handshake_vars>>

\* what each component leaves alone
not_pipeline == <<buffer_vars, command_vars, cleanup_vars, reconnect_vars,
                  send_vars, dispatch_vars, controller_vars, processor_vars,
                  producer_vars,
                  lifecycle_vars, handshake_vars>>
not_buffer == <<pipeline_vars, command_vars, cleanup_vars, reconnect_vars,
                send_vars, dispatch_vars, controller_vars, processor_vars,
                  producer_vars,
                  lifecycle_vars, handshake_vars>>
not_commands == <<pipeline_vars, buffer_vars, cleanup_vars, reconnect_vars,
                  send_vars, dispatch_vars, controller_vars, processor_vars,
                  producer_vars,
                  lifecycle_vars, handshake_vars>>
not_reconnect == <<pipeline_vars, buffer_vars, command_vars, cleanup_vars,
                   send_vars, dispatch_vars, controller_vars, processor_vars,
                  producer_vars,
                  lifecycle_vars, handshake_vars>>
not_database == <<pipeline_vars, reconnect_vars, send_vars, dispatch_vars,
                  controller_vars, processor_vars, producer_vars,
                  lifecycle_vars, handshake_vars>>
not_dispatch == <<buffer_vars, command_vars, cleanup_vars, reconnect_vars,
                  send_vars, controller_vars, processor_vars, producer_vars,
                  lifecycle_vars, handshake_vars>>
not_controller == <<pipeline_vars, buffer_vars, command_vars, cleanup_vars,
                    reconnect_vars, send_vars, dispatch_vars, processor_vars,
                    producer_vars,
                  lifecycle_vars, handshake_vars>>
not_processor == <<pipeline_vars, buffer_vars, command_vars, cleanup_vars,
                   reconnect_vars, send_vars, dispatch_vars, controller_vars,
                   producer_vars,
                  lifecycle_vars, handshake_vars>>
not_producer == <<buffer_vars, command_vars, cleanup_vars, reconnect_vars,
                  send_vars, dispatch_vars, processor_vars,
                  lifecycle_vars, handshake_vars>>

\* before any call on TelemetryDatabase
NoCall == [op |-> "none", ids |-> {}, limit |-> 0, outcome |-> "none",
           ret |-> "none", rows |-> <<>>, repeat |-> FALSE]

NoCommandCall == [op |-> "none", id |-> 0, status |-> "none", ret |-> "none",
                  rows |-> <<>>]

NoCleanupCall == [days |-> 0, ret |-> "none"]

NoSendCall == [op |-> "none", ret |-> "none"]

Messages == 1..MaxMessages

\* a message that has not arrived yet
NoThread == [pc |-> "none", outcome |-> "none"]

\* self.last_telemetry is None
NoTelemetry == [armed |-> FALSE, ts |-> 0, flight_time |-> 0,
                has_flight_time |-> FALSE, none |-> TRUE]

NoValidation == [is_valid |-> FALSE, errors |-> <<>>, warnings |-> <<>>]

NoProcCall == [op |-> "none",
               sample |-> [ts |-> 0, alt |-> 0, level |-> 0, voltage |-> 0,
                           sats |-> 0, armed |-> FALSE, shape |-> "none"],
               returned |-> "none", validation |-> NoValidation,
               processing_error |-> FALSE,
               has_flight_time |-> FALSE, flight_time |-> 0]

\* main.py's DroneKitTelemetryClient and drone_controller.py's DroneController
Producers == {"main", "controller"}

\* telemetry_loop (on start()'s thread) and send_heartbeat (on its own)
Loops == {"telemetry", "heartbeat"}

\* send_heartbeat has not made a pass yet
NoBeat == [ret |-> "none", opens |-> 0]

CommandIds == 1..MaxCalls

\* a command id execute_command has not been called with
NoExec == [pc |-> "none", command |-> "none", path |-> "none",
           success |-> FALSE, callback |-> FALSE]

Threads == 1..MaxOpens

Socks == 1..MaxSocks

\* a WebSocketApp that has not been created yet
NoSock == [st |-> "none", cb |-> "idle", code |-> "none"]

(***************************************************************************)
(* main.py: helpers                                                        *)
(***************************************************************************)
\* get_telemetry_data: the dict built from the vehicle, numbered seq
get_telemetry_data(ts) == [seq |-> sequence_number, ts |-> ts]

\* buffer_telemetry: INSERT INTO telemetry ... (sent defaults to FALSE); an
\* exception (dbok = FALSE) is logged and swallowed, nothing is inserted
buffer_telemetry(tbl, data, dbok) ==
    IF dbok
    THEN Append(tbl, [id |-> Len(tbl) + 1, seq |-> data.seq, ts |-> data.ts,
                      sent |-> FALSE])
    ELSE tbl

\* variants of telemetry_loop's choice, for the sensitivity of C1 and C2:
\* buffer every sample; buffer only when the socket is not connected
telemetry_loop_buffers_always(conn, sendok) == TRUE
telemetry_loop_buffers_offline_only(conn, sendok) == ~conn

\* variant for the sensitivity of C22: buffer only after a failed send
telemetry_loop_buffers_failed_send_only(conn, sendok) == conn /\ ~sendok

\* telemetry_loop's choice: the sample is buffered when the socket is not
\* connected, or when ws.send raised
telemetry_loop_buffers(conn, sendok) == ~(conn /\ sendok)

\* a socket callback thread of WebSocketClient is in _attempt_reconnect's
\* time.sleep
InBackoffSleep == \E s \in Socks : sock[s].cb = "sleep"

\* what telemetry_loop did about the immediate send of a sample
live_outcome(conn, sendok) ==
    IF ~conn THEN "skip" ELSE IF sendok THEN "ok" ELSE "fail"

\* what became of the sample's INSERT: not attempted, committed, or raised
store_outcome(buf, dbok) ==
    IF ~buf THEN "none" ELSE IF dbok THEN "ok" ELSE "error"

\* SELECT id FROM telemetry WHERE sent = FALSE ORDER BY id LIMIT n
RECURSIVE unsent_by_id(_, _)
unsent_by_id(tbl, from) ==
    IF from > Len(tbl) THEN <<>>
    ELSE IF tbl[from].sent THEN unsent_by_id(tbl, from + 1)
    ELSE <<from>> \o unsent_by_id(tbl, from + 1)

select_unsent(tbl, n) ==
    LET all == unsent_by_id(tbl, 1)
    IN  SubSeq(all, 1, IF Len(all) < n THEN Len(all) ELSE n)

\* UPDATE telemetry SET sent = TRUE WHERE id = ?
mark_row_sent(tbl, id) == [tbl EXCEPT ![id].sent = TRUE]

\* variant for the sensitivity of C8: the row is marked whatever ws.send did
replay_marks_unconditionally(sent, dbok) == dbok

\* send_buffered_data marks a row after ws.send returned and only when the
\* UPDATE and its commit went through
replay_marks(sent, dbok) == sent /\ dbok

(***************************************************************************)
(* main.py: actions                                                        *)
(***************************************************************************)
Init ==
    /\ ws_connected = FALSE
    /\ sequence_number = 0
    /\ telemetry = <<>>
    /\ replay = [t \in Threads |-> [pc |-> "idle", rows |-> <<>>, i |-> 0]]
    /\ opens = 0
    /\ ticks = <<>>
    /\ wire = <<>>
    /\ db_telemetry = {}
    /\ db_telemetry_seq = 0
    /\ db_ids = <<>>
    /\ db_call = NoCall
    /\ db_commands = {}
    /\ db_commands_seq = 0
    /\ db_now = 1
    /\ cmd_call = NoCommandCall
    /\ was_terminal = {}
    /\ db_logs = {}
    /\ db_logs_seq = 0
    /\ cleanup_call = NoCleanupCall
    /\ connected = FALSE
    /\ reconnect_interval = BackoffFloor
    /\ reconnect_attempts = 0
    /\ ws = 0
    /\ sock = [s \in Socks |-> NoSock]
    /\ connect_call = [s \in Socks |-> "none"]
    /\ last_wait = 0
    /\ opened_since = FALSE
    /\ gave_up = FALSE
    /\ shutdown = FALSE
    /\ ws_sent = 0
    /\ send_call = NoSendCall
    /\ received = 0
    /\ cmd_thread = [m \in Messages |-> NoThread]
    /\ commands = <<>>
    /\ acked = {}
    /\ vehicle = FALSE
    /\ command_result_callback = FALSE
    /\ exec_call = [c \in CommandIds |-> NoExec]
    /\ notified = [c \in CommandIds |-> <<>>]
    /\ last_telemetry = NoTelemetry
    /\ telemetry_history = <<>>
    /\ total_processed = 0
    /\ proc_call = NoProcCall
    /\ seq_number = 0
    /\ reads = [p \in Producers |-> 0]
    /\ emitted = [p \in Producers |-> <<>>]
    /\ running = FALSE
    /\ loop_pc = [l \in Loops |-> "idle"]
    /\ stop_pc = "none"
    /\ hb_call = NoBeat
    /\ handshake = [s \in Socks |-> "none"]
    /\ first_message = [s \in Socks |-> "none"]

\* one iteration of telemetry_loop that read a sample
telemetry_tick(SendOutcomes, DbOutcomes) ==
    /\ sequence_number < MaxSamples
    /\ \E ts \in 1..MaxTs, sendok \in SendOutcomes, dbok \in DbOutcomes :
         LET data == get_telemetry_data(ts)
             buf  == telemetry_loop_buffers(ws_connected, sendok)
         IN  /\ sequence_number' = sequence_number + 1
             /\ wire' = IF ws_connected /\ sendok
                        THEN Append(wire, [via |-> "live", seq |-> data.seq,
                                           ts |-> data.ts, id |-> 0, run |-> 0])
                        ELSE wire
             /\ telemetry' = IF buf THEN buffer_telemetry(telemetry, data, dbok)
                             ELSE telemetry
             /\ ticks' = Append(ticks,
                                [live    |-> live_outcome(ws_connected, sendok),
                                 store   |-> store_outcome(buf, dbok),
                                 backoff |-> InBackoffSleep])

telemetry_loop_step(SendOutcomes, DbOutcomes) ==
    /\ telemetry_tick(SendOutcomes, DbOutcomes)
    /\ UNCHANGED <<ws_connected, replay, opens, not_pipeline>>

\* on_ws_open: the socket is connected; SUBSCRIBE is sent, then the replay
\* thread is started. When the SUBSCRIBE send raises, the thread is not.
on_ws_open(SendOutcomes) ==
    /\ ~ws_connected
    /\ opens < MaxOpens
    /\ \E subok \in SendOutcomes :
         /\ ws_connected' = TRUE
         /\ opens' = opens + 1
         /\ replay' = [replay EXCEPT ![opens + 1].pc =
                           IF subok THEN "spawned" ELSE "done"]
    /\ UNCHANGED <<sequence_number, telemetry, ticks, wire, not_pipeline>>

\* the socket closes or fails (on_ws_close / on_ws_error only log)
on_ws_close ==
    /\ ws_connected
    /\ ws_connected' = FALSE
    /\ UNCHANGED <<sequence_number, telemetry, replay, opens, ticks, wire,
                   not_pipeline>>

\* send_buffered_data, first part: the SELECT
send_buffered_data_select(t, DbOutcomes) ==
    /\ replay[t].pc = "spawned"
    /\ \E dbok \in DbOutcomes :
         LET rows == IF dbok THEN select_unsent(telemetry, ReplayLimit) ELSE <<>>
         IN  replay' = [replay EXCEPT ![t] =
                 [pc   |-> IF rows = <<>> THEN "done" ELSE "loop",
                  rows |-> rows,
                  i    |-> IF rows = <<>> THEN 0 ELSE 1]]
    /\ UNCHANGED <<ws_connected, sequence_number, telemetry, opens, ticks, wire,
                   not_pipeline>>

\* send_buffered_data, one pass of the for loop over the selected rows
send_buffered_data_row(t, SendOutcomes, DbOutcomes) ==
    /\ replay[t].pc = "loop"
    /\ \E sendok \in SendOutcomes, dbok \in DbOutcomes :
         LET id   == replay[t].rows[replay[t].i]
             sent == ws_connected /\ sendok
             cont == sent /\ dbok /\ replay[t].i < Len(replay[t].rows)
         IN  /\ wire' = IF sent
                        THEN Append(wire, [via |-> "replay",
                                           seq |-> telemetry[id].seq,
                                           ts |-> telemetry[id].ts,
                                           id |-> id, run |-> t])
                        ELSE wire
             /\ telemetry' = IF replay_marks(sent, dbok)
                             THEN mark_row_sent(telemetry, id)
                             ELSE telemetry
             /\ replay' = [replay EXCEPT ![t] =
                     IF cont THEN [@ EXCEPT !.i = @ + 1]
                     ELSE [pc |-> "done", rows |-> @.rows, i |-> @.i]]
    /\ UNCHANGED <<ws_connected, sequence_number, opens, ticks, not_pipeline>>

Next ==
    \/ telemetry_loop_step(BOOLEAN, BOOLEAN)
    \/ on_ws_open(BOOLEAN)
    \/ on_ws_close
    \/ \E t \in Threads : send_buffered_data_select(t, BOOLEAN)
    \/ \E t \in Threads : send_buffered_data_row(t, BOOLEAN, BOOLEAN)

Spec == Init /\ [][Next]_vars

(***************************************************************************)
(* The same program with no faults injected: every ws.send on a connected  *)
(* socket returns, every database statement commits. The threads are       *)
(* scheduled fairly; the socket opens and closes as the network pleases.   *)
(***************************************************************************)
HealthyNext ==
    \/ telemetry_loop_step({TRUE}, {TRUE})
    \/ on_ws_open({TRUE})
    \/ on_ws_close
    \/ \E t \in Threads : send_buffered_data_select(t, {TRUE})
    \/ \E t \in Threads : send_buffered_data_row(t, {TRUE}, {TRUE})

FairSpec ==
    /\ Init
    /\ [][HealthyNext]_vars
    /\ WF_vars(telemetry_loop_step({TRUE}, {TRUE}))
    /\ \A t \in Threads : WF_vars(send_buffered_data_select(t, {TRUE}))
    /\ \A t \in Threads : WF_vars(send_buffered_data_row(t, {TRUE}, {TRUE}))

(***************************************************************************)
(* Vocabulary of the pipeline claims                                       *)
(***************************************************************************)
Produced == 0..(sequence_number - 1)
Rows == 1..Len(telemetry)
WireIdx == 1..Len(wire)

InBuffer(s) == \E id \in Rows : telemetry[id].seq = s
InBufferUnsent(s) == \E id \in Rows : telemetry[id].seq = s /\ ~telemetry[id].sent
LiveSendReturned(s) == \E k \in WireIdx : wire[k].via = "live" /\ wire[k].seq = s
ReplaySendReturned(id) == \E k \in WireIdx : wire[k].via = "replay" /\ wire[k].id = id
SendReturned(s) ==
    \/ LiveSendReturned(s)
    \/ \E id \in Rows : telemetry[id].seq = s /\ ReplaySendReturned(id)

C2_NoSampleLostToTransport ==
    \A s \in Produced :
        \/ SendReturned(s)
        \/ InBufferUnsent(s)
        \/ ticks[s + 1].store = "error"

C2_Witness ==
    /\ opens = MaxOpens
    /\ \E s \in Produced : ticks[s + 1].live = "fail" /\ InBufferUnsent(s)
    /\ \E id \in Rows : telemetry[id].sent /\ ReplaySendReturned(id)
    /\ \E t \in Threads : /\ replay[t].pc = "done"
                          /\ replay[t].i >= 1
                          /\ ~telemetry[replay[t].rows[replay[t].i]].sent

(***************************************************************************)
(* C3  Every sample buffered while the socket was not connected is, once   *)
(* the socket is connected and stays so, eventually transmitted and marked *)
(* sent. Stated per buffer id; checked under FairSpec, where nothing fails.*)
(***************************************************************************)
BufferedOfflineUnsent(id) ==
    /\ id \in Rows
    /\ ticks[telemetry[id].seq + 1].live = "skip"
    /\ ~telemetry[id].sent

C3_OfflineSamplesEventuallySent ==
    \A id \in 1..MaxSamples :
        (BufferedOfflineUnsent(id) /\ ws_connected)
            ~> ((id \in Rows /\ telemetry[id].sent) \/ ~ws_connected)

(***************************************************************************)
(* C5  Replay transmits in non-decreasing sample-timestamp order: of two   *)
(* replay transmissions, the earlier one carries the smaller or equal ts.  *)
(***************************************************************************)
C5_ReplayInTimestampOrder ==
    \A j, k \in WireIdx :
        (j < k /\ wire[j].via = "replay" /\ wire[k].via = "replay")
            => wire[j].ts <= wire[k].ts

(***************************************************************************)
(* C8  Replay marks as sent only what it transmitted: a row has sent =     *)
(* TRUE only if a replay send of that row returned; a row is marked in the *)
(* very step its send returned; a pass of the loop whose send did not      *)
(* return marks nothing and ends the run, so the failed row and the rows   *)
(* after it in the batch are left as they were; no step resets a flag.     *)
(***************************************************************************)
C8_SentOnlyIfSendReturned ==
    \A id \in Rows : telemetry[id].sent => ReplaySendReturned(id)

C8_StepMarksOnlyTheRowItSent ==
    \A id \in Rows :
        (~telemetry[id].sent /\ telemetry'[id].sent) =>
            \E t \in Threads :
                /\ replay[t].pc = "loop"
                /\ replay[t].rows[replay[t].i] = id
                /\ wire' = Append(wire, [via |-> "replay", seq |-> telemetry[id].seq,
                                         ts |-> telemetry[id].ts, id |-> id,
                                         run |-> t])

C8_FailedSendEndsTheRun ==
    \A t \in Threads :
        (replay[t].pc = "loop" /\ replay'[t] # replay[t] /\ wire' = wire) =>
            /\ telemetry' = telemetry
            /\ replay'[t].pc = "done"
            /\ replay'[t].i = replay[t].i

C8_NeverUnmarks ==
    \A id \in Rows : telemetry[id].sent => (id \in 1..Len(telemetry') /\ telemetry'[id].sent)

C8_ReplayMarksOnlyTransmitted ==
    [][/\ C8_SentOnlyIfSendReturned'
       /\ C8_StepMarksOnlyTheRowItSent
       /\ C8_FailedSendEndsTheRun
       /\ C8_NeverUnmarks]_vars

\* a send failed on the second row of a batch: the first row is marked, the
\* second and the run's position are left where the failure found them
C8_Witness ==
    \E t \in Threads :
        /\ replay[t].pc = "done"
        /\ replay[t].i = 2
        /\ telemetry[replay[t].rows[1]].sent
        /\ ~telemetry[replay[t].rows[2]].sent
        /\ ~ReplaySendReturned(replay[t].rows[2])
        /\ ws_connected

(***************************************************************************)
(* database.py, TelemetryDatabase: table telemetry                         *)
(***************************************************************************)
Min(S) == CHOOSE x \in S : \A y \in S : x <= y

\* ORDER BY timestamp ASC: the rows of S by timestamp, rows of equal
\* timestamp in rowid order (the order SQLite's scan delivers them in)
RECURSIVE order_by_timestamp(_)
order_by_timestamp(S) ==
    IF S = {} THEN <<>>
    ELSE LET first == CHOOSE r \in S : \A q \in S :
                          \/ r.timestamp < q.timestamp
                          \/ (r.timestamp = q.timestamp /\ r.id <= q.id)
         IN  <<first>> \o order_by_timestamp(S \ {first})

\* rows in id order (ORDER BY id; the variant for the sensitivity of C4)
RECURSIVE order_by_id(_)
order_by_id(S) ==
    IF S = {} THEN <<>>
    ELSE LET first == CHOOSE r \in S : \A q \in S : r.id <= q.id
         IN  <<first>> \o order_by_id(S \ {first})

unsent_query_by_id(tbl, limit) ==
    LET all == order_by_id({r \in tbl : ~r.sent})
    IN  SubSeq(all, 1, IF Len(all) < limit THEN Len(all) ELSE limit)

\* SELECT ... FROM telemetry WHERE sent = 0 ORDER BY timestamp ASC LIMIT ?
unsent_query(tbl, limit) ==
    LET all == order_by_timestamp({r \in tbl : ~r.sent})
    IN  SubSeq(all, 1, IF Len(all) < limit THEN Len(all) ELSE limit)

\* the dicts get_unsent_telemetry builds from the rows: no sent column
unsent_dicts(rows) ==
    [k \in 1..Len(rows) |-> [id |-> rows[k].id, timestamp |-> rows[k].timestamp]]

\* variants for the sensitivity of C6 and C7: an UPDATE with no WHERE
\* clause; one UPDATE and commit per id, the failure striking after the first
update_sent_everywhere(tbl, ids, outcome) ==
    IF outcome \in {"commit", "crash_after_commit"}
    THEN {[r EXCEPT !.sent = TRUE] : r \in tbl}
    ELSE tbl

update_sent_row_by_row(tbl, ids, outcome) ==
    LET hit == {r.id : r \in tbl} \cap ids
        upto == IF outcome \in {"commit", "crash_after_commit"} \/ hit = {}
                THEN ids ELSE {Min(hit)}
    IN  {IF r.id \in upto THEN [r EXCEPT !.sent = TRUE] ELSE r : r \in tbl}

\* UPDATE telemetry SET sent = 1 WHERE id IN (...); commit: one statement in
\* one transaction. It takes effect when the commit is durable; an exception
\* or a crash before that leaves the table as it was.
update_sent(tbl, ids, outcome) ==
    IF outcome \in {"commit", "crash_after_commit"}
    THEN {IF r.id \in ids THEN [r EXCEPT !.sent = TRUE] ELSE r : r \in tbl}
    ELSE tbl

\* what mark_telemetry_sent returns; a crashed call returns nothing
mark_return(outcome) ==
    IF outcome = "commit" THEN "True"
    ELSE IF outcome = "error" THEN "False" ELSE "none"

MarkOutcomes == {"commit", "error", "crash_before_commit", "crash_after_commit"}

\* variant for the sensitivity of C13: id INTEGER PRIMARY KEY without
\* AUTOINCREMENT, the new rowid is one more than the largest in the table
next_rowid_of_table(tbl, seq) ==
    IF tbl = {} THEN 1
    ELSE (CHOOSE m \in {r.id : r \in tbl} : \A r \in tbl : r.id <= m) + 1

\* id INTEGER PRIMARY KEY AUTOINCREMENT: one more than the largest rowid the
\* table has ever held (sqlite_sequence), whatever has been deleted since
next_rowid(tbl, seq) == seq + 1

\* The INSERT and its commit are one step: SQLite's write lock lets one
\* connection write at a time, and a call that cannot get it (or fails
\* otherwise) raises, stores nothing and returns False.
store_telemetry ==
    /\ db_telemetry_seq < MaxRows
    /\ \E ts \in 1..MaxTs, dbok \in BOOLEAN :
         /\ db_telemetry' = IF dbok
                THEN db_telemetry \cup
                       {[id |-> next_rowid(db_telemetry, db_telemetry_seq),
                         timestamp |-> ts, sent |-> FALSE,
                         created_at |-> db_now]}
                ELSE db_telemetry
         /\ db_telemetry_seq' = IF dbok
                THEN next_rowid(db_telemetry, db_telemetry_seq)
                ELSE db_telemetry_seq
         /\ db_ids' = IF dbok
                THEN Append(db_ids, next_rowid(db_telemetry, db_telemetry_seq))
                ELSE db_ids
         /\ db_call' = [NoCall EXCEPT !.op = "store_telemetry",
                                      !.ret = IF dbok THEN "True" ELSE "False"]
    /\ UNCHANGED not_buffer

get_unsent_telemetry ==
    /\ \E limit \in 0..MaxLimit, dbok \in BOOLEAN :
         db_call' = [NoCall EXCEPT
                        !.op = "get_unsent_telemetry",
                        !.limit = limit,
                        !.ret = IF dbok THEN "list" ELSE "empty on error",
                        !.rows = IF dbok
                                 THEN unsent_dicts(unsent_query(db_telemetry, limit))
                                 ELSE <<>>]
    /\ UNCHANGED <<db_telemetry, db_telemetry_seq, db_ids, not_buffer>>

mark_telemetry_sent ==
    /\ \E ids \in SUBSET (1..MaxRows), outcome \in MarkOutcomes :
         IF ids = {}
         THEN /\ db_call' = [NoCall EXCEPT !.op = "mark_telemetry_sent",
                                           !.ret = "True"]
              /\ UNCHANGED db_telemetry
         ELSE /\ db_telemetry' = update_sent(db_telemetry, ids, outcome)
              /\ db_call' = [NoCall EXCEPT
                                !.op = "mark_telemetry_sent",
                                !.ids = ids,
                                !.outcome = outcome,
                                !.ret = mark_return(outcome),
                                !.repeat = /\ db_call.op = "mark_telemetry_sent"
                                           /\ db_call.ret = "True"
                                           /\ db_call.ids = ids]
    /\ UNCHANGED <<db_telemetry_seq, db_ids, not_buffer>>

BufferNext ==
    \/ store_telemetry
    \/ get_unsent_telemetry
    \/ mark_telemetry_sent

BufferSpec == Init /\ [][BufferNext]_vars

(***************************************************************************)
(* database.py, TelemetryDatabase: table commands                          *)
(***************************************************************************)
Statuses == {"pending", "in_progress", "completed", "failed"}
Terminal == {"completed", "failed"}
\* json.dumps(result) if result else None
Results == {"null", "a", "b"}

\* UPDATE commands SET status = ?, result = ?, executed_at =
\* CURRENT_TIMESTAMP WHERE id = ?
update_command_row(tbl, id, status, result, now) ==
    {IF c.id = id
     THEN [c EXCEPT !.status = status, !.result = result, !.executed_at = now]
     ELSE c : c \in tbl}

store_command ==
    /\ db_commands_seq < MaxCommands
    /\ \E dbok \in BOOLEAN :
         /\ db_commands' = IF dbok
                THEN db_commands \cup {[id |-> db_commands_seq + 1,
                                        status |-> "pending", result |-> "null",
                                        executed_at |-> 0]}
                ELSE db_commands
         /\ db_commands_seq' = IF dbok THEN db_commands_seq + 1
                               ELSE db_commands_seq
         /\ cmd_call' = [NoCommandCall EXCEPT
                            !.op = "store_command",
                            !.id = IF dbok THEN db_commands_seq + 1 ELSE -1,
                            !.ret = IF dbok THEN "id" ELSE "-1"]
    /\ UNCHANGED <<db_now, was_terminal, not_commands>>

\* the clock has moved on by d seconds since the last statement
update_command_status ==
    /\ \E id \in 1..MaxCommands, status \in Statuses, result \in Results,
          d \in {0, 1}, dbok \in BOOLEAN :
         /\ db_now + d <= MaxClock
         /\ db_now' = db_now + d
         /\ db_commands' = IF dbok
                THEN update_command_row(db_commands, id, status, result, db_now + d)
                ELSE db_commands
         /\ cmd_call' = [op |-> "update_command_status", id |-> id,
                         status |-> status,
                         ret |-> IF dbok THEN "True" ELSE "False",
                         rows |-> <<>>]
         /\ was_terminal' =
                IF dbok /\ status \in Terminal
                        /\ \E c \in db_commands : c.id = id
                THEN was_terminal \cup {id}
                ELSE was_terminal
    /\ UNCHANGED <<db_commands_seq, not_commands>>

CommandNext ==
    \/ store_command
    \/ update_command_status

CommandSpec == Init /\ [][CommandNext]_vars

\* SELECT id, ... FROM commands WHERE drone_id = ? AND status = 'pending'
\* ORDER BY received_at ASC, for the one drone the database serves.
\* received_at is the insertion time, which does not decrease with the id.
pending_query(tbl) == order_by_id({c \in tbl : c.status = "pending"})

\* the ids of the dicts get_pending_commands builds from the rows
pending_ids(rows) == [k \in 1..Len(rows) |-> rows[k].id]

\* get_pending_commands: [] when the query raised
get_pending_commands ==
    /\ \E dbok \in BOOLEAN :
         cmd_call' = [NoCommandCall EXCEPT
                         !.op = "get_pending_commands",
                         !.ret = IF dbok THEN "rows" ELSE "[]",
                         !.rows = IF dbok
                                  THEN pending_ids(pending_query(db_commands))
                                  ELSE <<>>]
    /\ UNCHANGED <<db_commands, db_commands_seq, db_now, was_terminal,
                   not_commands>>

\* The calls made on the table commands, get_pending_commands among them.
\* To keep the runs small the clock stands still and no result is passed.
PendingNext ==
    \/ store_command
    \/ /\ update_command_status
       /\ db_now' = db_now
       /\ \A c \in db_commands' : c.result = "null"
    \/ get_pending_commands

PendingSpec == Init /\ [][PendingNext]_vars

(***************************************************************************)
(* database.py, TelemetryDatabase: table logs and cleanup_old_data         *)
(***************************************************************************)
\* INSERT INTO logs ...: timestamp defaults to CURRENT_TIMESTAMP
log_event ==
    /\ db_logs_seq < MaxLogs
    /\ \E dbok \in BOOLEAN :
         /\ db_logs' = IF dbok
                THEN db_logs \cup {[id |-> db_logs_seq + 1, timestamp |-> db_now]}
                ELSE db_logs
         /\ db_logs_seq' = IF dbok THEN db_logs_seq + 1 ELSE db_logs_seq
    /\ UNCHANGED <<cleanup_call, buffer_vars, command_vars, not_database>>

\* the database clock moves on between two calls
time_passes ==
    /\ db_now < MaxClock
    /\ db_now' = db_now + 1
    /\ UNCHANGED <<db_commands, db_commands_seq, cmd_call, was_terminal,
                   buffer_vars, cleanup_vars, not_database>>

\* datetime('now', '-' || ? || ' days')
cleanup_threshold(now, days) == now - days * Day

\* variant for the sensitivity of C11: DELETE FROM telemetry by age alone
cleanup_deletes_telemetry_by_age(r, threshold) == r.created_at < threshold

\* DELETE FROM telemetry WHERE sent = 1 AND created_at < threshold
cleanup_deletes_telemetry(r, threshold) ==
    r.sent /\ r.created_at < threshold

\* DELETE FROM logs WHERE timestamp < threshold
cleanup_deletes_log(l, threshold) == l.timestamp < threshold

\* DELETE FROM commands WHERE status != 'pending' AND executed_at <
\* threshold; executed_at is NULL (0 here) until the first
\* update_command_status, and NULL < threshold is not true
cleanup_deletes_command(c, threshold) ==
    /\ c.status # "pending"
    /\ c.executed_at # 0
    /\ c.executed_at < threshold

\* The three DELETEs and the commit are one transaction on a connection of
\* the call's own: an exception before the commit leaves the tables as they
\* were and the call returns False.
cleanup_old_data ==
    /\ \E days \in 0..MaxDays, dbok \in BOOLEAN :
         LET threshold == cleanup_threshold(db_now, days)
         IN  /\ db_telemetry' = IF dbok
                    THEN {r \in db_telemetry :
                             ~cleanup_deletes_telemetry(r, threshold)}
                    ELSE db_telemetry
             /\ db_logs' = IF dbok
                    THEN {l \in db_logs : ~cleanup_deletes_log(l, threshold)}
                    ELSE db_logs
             /\ db_commands' = IF dbok
                    THEN {c \in db_commands :
                             ~cleanup_deletes_command(c, threshold)}
                    ELSE db_commands
             /\ cleanup_call' = [days |-> days,
                                 ret |-> IF dbok THEN "True" ELSE "False"]
    /\ db_call' = [NoCall EXCEPT !.op = "cleanup_old_data"]
    /\ cmd_call' = [NoCommandCall EXCEPT !.op = "cleanup_old_data"]
    /\ UNCHANGED <<db_telemetry_seq, db_ids, db_commands_seq, db_logs_seq,
                   db_now, was_terminal, not_database>>

\* The calls made on one database over its life, cleanup among them. To keep
\* the runs small the callers here store CleanupRows samples, all of
\* timestamp 1, and CleanupCommands commands; mark one row per call; pass no
\* result; and no statement but cleanup's fails.
DatabaseNext ==
    \/ /\ store_telemetry
       /\ db_telemetry_seq < CleanupRows
       /\ db_call'.ret = "True"
       /\ \A r \in db_telemetry' : r.timestamp = 1
    \/ /\ mark_telemetry_sent
       /\ db_call'.outcome = "commit"
       /\ \E r \in db_telemetry : ~r.sent /\ db_call'.ids = {r.id}
    \/ /\ store_command
       /\ db_commands_seq < CleanupCommands
       /\ cmd_call'.ret = "id"
    \/ /\ update_command_status
       /\ cmd_call'.ret = "True"
       /\ db_now' = db_now
       /\ \E c \in db_commands : c.id = cmd_call'.id
       /\ \A c \in db_commands' : c.result = "null"
    \/ log_event
    \/ time_passes
    \/ cleanup_old_data

DatabaseSpec == Init /\ [][DatabaseNext]_vars

(***************************************************************************)
(* websocket_client.py, WebSocketClient: connect, the callbacks of the     *)
(* WebSocketApp objects and _attempt_reconnect.                            *)
(*                                                                         *)
(* Every WebSocketApp runs its callbacks on a thread of its own            *)
(* (ws.run_forever), one after the other; _attempt_reconnect runs inside   *)
(* the callback that called it, sleep included. Which callbacks a socket   *)
(* delivers, and when, is the transport's choice: open or error while      *)
(* connecting; error and/or close once open; close after an error.         *)
(***************************************************************************)
CloseCodes == {"1000", "other"}

\* min(self.reconnect_interval * 2, 60)
next_reconnect_interval(interval) ==
    IF interval * 2 < BackoffCeiling THEN interval * 2 ELSE BackoffCeiling

\* variant for the sensitivity of C19: reconnect whatever the close code
on_close_reconnects_always(code) == TRUE

\* if close_status_code != 1000
on_close_reconnects(code) == code # "1000"

\* if self.reconnect_attempts >= self.max_reconnect_attempts
limit_reached(attempts) == attempts >= MaxReconnectAttempts

\* connect(), up to the wait loop: a new WebSocketApp is stored in self.ws
\* and its thread is started
connect_begin(s) ==
    /\ ws' = s
    /\ sock' = [sock EXCEPT ![s].st = "connecting"]
    /\ connect_call' = [connect_call EXCEPT ![s] = "waiting"]

\* the first connect(), called by the owner of the client
connect ==
    /\ ws = 0
    /\ ~shutdown
    /\ connect_begin(1)
    /\ UNCHANGED <<connected, reconnect_interval, reconnect_attempts,
                   last_wait, opened_since,
                   gave_up, shutdown, not_reconnect>>

\* connect(), after the wait loop: the loop ends when self.connected is set
\* or when 10 s have passed; the counter is reset when self.connected is set
connect_returns(s) ==
    /\ connect_call[s] = "waiting"
    /\ connect_call' = [connect_call EXCEPT ![s] =
                            IF connected THEN "True" ELSE "False"]
    /\ reconnect_attempts' = IF connected THEN 0 ELSE reconnect_attempts
    /\ UNCHANGED <<connected, reconnect_interval, ws, sock, last_wait, opened_since,
                   gave_up, shutdown, not_reconnect>>

\* _on_open, line 143: self.connected = True, on the thread of the socket
\* that has just opened
on_open_sets_connected(s) ==
    /\ sock[s].st = "connecting"
    /\ connected' = TRUE
    /\ sock' = [sock EXCEPT ![s].st = "open"]
    /\ opened_since' = TRUE
    /\ UNCHANGED <<reconnect_interval, reconnect_attempts, ws, connect_call,
                   last_wait, gave_up, shutdown>>

\* _on_open, as the reconnect policy sees it
on_open(s) ==
    /\ on_open_sets_connected(s)
    /\ UNCHANGED not_reconnect

\* _on_error, up to its call of _attempt_reconnect
on_error(s) ==
    /\ sock[s].st \in {"connecting", "open", "closing"}
    /\ sock[s].cb = "idle"
    /\ connected' = FALSE
    /\ sock' = [sock EXCEPT ![s].st = "errored", ![s].cb = "check"]
    /\ UNCHANGED <<reconnect_interval, reconnect_attempts, ws, connect_call,
                   last_wait, opened_since,
                   gave_up, shutdown, not_reconnect>>

\* _on_close, up to its call of _attempt_reconnect
on_close(s) ==
    /\ sock[s].st \in {"open", "errored", "closing"}
    /\ sock[s].cb = "idle"
    /\ \E code \in CloseCodes :
         sock' = [sock EXCEPT ![s] =
                     [st |-> "closed",
                      cb |-> IF on_close_reconnects(code) THEN "check"
                             ELSE "idle",
                      code |-> code]]
    /\ connected' = FALSE
    /\ UNCHANGED <<reconnect_interval, reconnect_attempts, ws, connect_call,
                   last_wait, opened_since,
                   gave_up, shutdown, not_reconnect>>

\* _attempt_reconnect: the test of the limit
attempt_reconnect_check(s) ==
    /\ sock[s].cb = "check"
    /\ sock' = [sock EXCEPT ![s].cb =
                    IF limit_reached(reconnect_attempts) THEN "idle"
                    ELSE "incr"]
    /\ gave_up' = (gave_up \/ limit_reached(reconnect_attempts))
    /\ UNCHANGED <<connected, reconnect_interval, reconnect_attempts, ws,
                   connect_call, last_wait, opened_since,
                   shutdown, not_reconnect>>

\* _attempt_reconnect: the counter goes up and the sleep begins
attempt_reconnect_sleep(s) ==
    /\ sock[s].cb = "incr"
    /\ reconnect_attempts' = reconnect_attempts + 1
    /\ last_wait' = reconnect_interval
    /\ opened_since' = FALSE
    /\ sock' = [sock EXCEPT ![s].cb = "sleep"]
    /\ UNCHANGED <<connected, reconnect_interval, ws, connect_call, gave_up,
                   shutdown, not_reconnect>>

\* _attempt_reconnect: the sleep is over, the interval is doubled and a
\* thread running connect() is started
attempt_reconnect_wake(s) ==
    /\ sock[s].cb = "sleep"
    /\ ws < MaxSocks
    /\ reconnect_interval' = next_reconnect_interval(reconnect_interval)
    /\ ws' = ws + 1
    /\ sock' = [sock EXCEPT ![s].cb = "idle", ![ws + 1].st = "connecting"]
    /\ connect_call' = [connect_call EXCEPT ![ws + 1] = "waiting"]
    /\ UNCHANGED <<connected, reconnect_attempts, last_wait, opened_since,
                   gave_up,
                   shutdown, not_reconnect>>

\* disconnect(): self.ws.close() makes the socket close (it cannot open any
\* more); the close code its on_close will report is the transport's
disconnect ==
    /\ ~shutdown
    /\ shutdown' = TRUE
    /\ connected' = FALSE
    /\ sock' = IF ws # 0 /\ sock[ws].st \in {"connecting", "open"}
               THEN [sock EXCEPT ![ws].st = "closing"]
               ELSE sock
    /\ UNCHANGED <<reconnect_interval, reconnect_attempts, ws, connect_call,
                   last_wait, opened_since,
                   gave_up, not_reconnect>>

ReconnectNext ==
    \/ connect
    \/ disconnect
    \/ \E s \in Socks : connect_returns(s)
    \/ \E s \in Socks : on_open(s)
    \/ \E s \in Socks : on_error(s)
    \/ \E s \in Socks : on_close(s)
    \/ \E s \in Socks : attempt_reconnect_check(s)
    \/ \E s \in Socks : attempt_reconnect_sleep(s)
    \/ \E s \in Socks : attempt_reconnect_wake(s)

ReconnectSpec == Init /\ [][ReconnectNext]_vars

(***************************************************************************)
(* websocket_client.py, WebSocketClient: send_telemetry, send_command_ack  *)
(***************************************************************************)
\* variant for the sensitivity of C21: only self.ws is tested
send_allowed_without_flag(flag, w) == w # 0

\* the negation of: if not self.connected or not self.ws
send_allowed(flag, w) == flag /\ w # 0

\* self.ws.send(...) on the WebSocketApp stored in self.ws returns when that
\* socket is open and the transport takes the message, and raises otherwise
ws_send_returns(w, sendok) == sock[w].st = "open" /\ sendok

\* the body shared by send_telemetry and send_command_ack: False when the
\* test fails or self.ws.send raises, True when the message has gone out
send_message(op) ==
    /\ \E sendok \in BOOLEAN :
         LET out == send_allowed(connected, ws) /\ ws_send_returns(ws, sendok)
         IN  /\ out => ws_sent < MaxSends
             /\ ws_sent' = IF out THEN ws_sent + 1 ELSE ws_sent
             /\ send_call' = [op |-> op, ret |-> IF out THEN "True" ELSE "False"]
    /\ UNCHANGED <<pipeline_vars, buffer_vars, command_vars, cleanup_vars,
                   reconnect_vars, dispatch_vars, controller_vars,
                   processor_vars, producer_vars, lifecycle_vars, handshake_vars>>

send_telemetry == send_message("send_telemetry")

send_command_ack == send_message("send_command_ack")

SendNext ==
    \/ ReconnectNext
    \/ send_telemetry
    \/ send_command_ack

SendSpec == Init /\ [][SendNext]_vars

(***************************************************************************)
(* websocket_client.py, WebSocketClient: _on_open statement by statement,  *)
(* next to send_telemetry and send_command_ack called on other threads.    *)
(* _on_open sets self.connected and only then sends drone_connect on the   *)
(* socket it was called for; the senders test self.connected and send on   *)
(* self.ws. Sockets fail (on_error) and are replaced by the reconnect      *)
(* policy; close callbacks, disconnect() and the return of connect() are   *)
(* left out, none of them sends anything.                                  *)
(***************************************************************************)
\* the type of the message each operation sends
message_type(op) ==
    CASE op = "_on_open"         -> "drone_connect"
      [] op = "send_telemetry"   -> "telemetry"
      [] op = "send_command_ack" -> "command_ack"

\* the first message of socket w, after op has sent on it or failed to
first_message_after(w, op, out) ==
    IF out /\ first_message[w] = "none"
    THEN [first_message EXCEPT ![w] = message_type(op)]
    ELSE first_message

\* _on_open, line 143
handshake_on_open(s) ==
    /\ on_open_sets_connected(s)
    /\ handshake' = [handshake EXCEPT ![s] = "pending"]
    /\ UNCHANGED <<first_message, pipeline_vars, buffer_vars, command_vars,
                   cleanup_vars, send_vars, dispatch_vars, controller_vars,
                   processor_vars, producer_vars, lifecycle_vars>>

\* _on_open, line 154: ws.send(init_message) on the socket the callback was
\* called for; when it raises the callback ends there
handshake_send(s) ==
    /\ handshake[s] = "pending"
    /\ \E sendok \in BOOLEAN :
         LET out == ws_send_returns(s, sendok)
         IN  /\ handshake' = [handshake EXCEPT ![s] =
                                  IF out THEN "sent" ELSE "raised"]
             /\ first_message' = first_message_after(s, "_on_open", out)
    /\ UNCHANGED <<pipeline_vars, buffer_vars, command_vars, cleanup_vars,
                   reconnect_vars, send_vars, dispatch_vars, controller_vars,
                   processor_vars, producer_vars, lifecycle_vars>>

\* send_telemetry or send_command_ack, with what the socket in self.ws has
\* carried first
handshake_send_message(op) ==
    /\ \E sendok \in BOOLEAN :
         LET out == send_allowed(connected, ws) /\ ws_send_returns(ws, sendok)
         IN  /\ ws_sent' = IF out THEN ws_sent + 1 ELSE ws_sent
             /\ ws_sent' <= MaxSends
             /\ send_call' = [op |-> op, ret |-> IF out THEN "True" ELSE "False"]
             /\ first_message' = IF ws = 0 THEN first_message
                                 ELSE first_message_after(ws, op, out)
    /\ UNCHANGED <<handshake, pipeline_vars, buffer_vars, command_vars,
                   cleanup_vars, reconnect_vars, dispatch_vars,
                   controller_vars, processor_vars, producer_vars,
                   lifecycle_vars>>

handshake_send_telemetry == handshake_send_message("send_telemetry")

handshake_send_command_ack == handshake_send_message("send_command_ack")

HandshakeNext ==
    \/ connect
    \/ \E s \in Socks : handshake_on_open(s)
    \/ \E s \in Socks : handshake_send(s)
    \/ \E s \in Socks : on_error(s)
    \/ \E s \in Socks : attempt_reconnect_check(s)
    \/ \E s \in Socks : attempt_reconnect_sleep(s)
    \/ \E s \in Socks : attempt_reconnect_wake(s)
    \/ handshake_send_telemetry
    \/ handshake_send_command_ack

HandshakeSpec == Init /\ [][HandshakeNext]_vars

(***************************************************************************)
(* The sampling loop of main.py beside the reconnect threads of            *)
(* websocket_client.py. The two share no state: telemetry_loop runs on the *)
(* thread start() is called on, _attempt_reconnect and its sleep on the    *)
(* callback thread of a socket. No fault is injected into the database;    *)
(* the sampling thread is scheduled fairly and nothing else need be: a     *)
(* backoff sleep may last for ever. To keep the runs small the producer    *)
(* clock stands still, one connection of main.py opens, and the client is  *)
(* not told to disconnect and makes one socket.                            *)
(***************************************************************************)
SamplingNext ==
    \/ /\ HealthyNext
       /\ opens' <= 1
       /\ \A id \in 1..Len(telemetry') : telemetry'[id].ts = 1
       /\ \A k \in 1..Len(wire') : wire'[k].ts = 1
    \/ /\ ReconnectNext
       /\ ~shutdown'
       /\ ws' <= 1

SamplingSpec ==
    /\ Init
    /\ [][SamplingNext]_vars
    /\ WF_vars(telemetry_loop_step({TRUE}, {TRUE}))

(***************************************************************************)
(* main.py, DroneKitTelemetryClient: on_ws_message, handle_command,        *)
(* execute_command and log_command                                         *)
(***************************************************************************)
\* what a message is: a command, another well-formed message, or text that
\* json.loads rejects
MessageKinds == {"command", "other", "malformed"}

\* how execute_command ends: no vehicle; safety_check refuses; the command
\* is carried out; the command is unknown or its precondition fails
\* (success False on the normal path); an exception is caught
ExecuteOutcomes == {"no_vehicle", "unsafe", "carried_out", "refused", "raised"}

\* result["success"]
execute_success(outcome) == outcome = "carried_out"

\* execute_command calls log_command on its normal path only: the early
\* returns and the except branch return without it
execute_logs(outcome) == outcome \in {"carried_out", "refused"}

\* log_command: INSERT INTO commands (..., executed, result) with executed =
\* result["success"]; an exception is logged and swallowed
log_command(tbl, m, outcome, dbok) ==
    IF dbok
    THEN Append(tbl, [cmd |-> m, executed |-> execute_success(outcome)])
    ELSE tbl

\* on_ws_message: a command starts a handle_command thread and the handler
\* returns; anything else is ignored (a parse error is logged)
on_ws_message ==
    /\ ws_connected
    /\ received < MaxMessages
    /\ received' = received + 1
    /\ \E kind \in MessageKinds :
         cmd_thread' = [cmd_thread EXCEPT ![received + 1].pc =
                           IF kind = "command" THEN "spawned" ELSE "ignored"]
    /\ UNCHANGED <<commands, acked, pipeline_vars, not_dispatch>>

\* handle_command, first line: execute_command runs to its return
handle_command_execute(m) ==
    /\ cmd_thread[m].pc = "spawned"
    /\ \E outcome \in ExecuteOutcomes, dbok \in BOOLEAN :
         /\ cmd_thread' = [cmd_thread EXCEPT ![m] =
                               [pc |-> "executed", outcome |-> outcome]]
         /\ commands' = IF execute_logs(outcome)
                        THEN log_command(commands, m, outcome, dbok)
                        ELSE commands
    /\ UNCHANGED <<received, acked, pipeline_vars, not_dispatch>>

\* handle_command, the rest: the ACK is sent once; when ws.send raises the
\* error is logged and the ACK is gone
handle_command_ack(m) ==
    /\ cmd_thread[m].pc = "executed"
    /\ \E sendok \in BOOLEAN :
         acked' = IF ws_connected /\ sendok THEN acked \cup {m} ELSE acked
    /\ cmd_thread' = [cmd_thread EXCEPT ![m].pc = "done"]
    /\ UNCHANGED <<received, commands, pipeline_vars, not_dispatch>>

DispatchNext ==
    \/ /\ on_ws_open(BOOLEAN)
       /\ UNCHANGED dispatch_vars
    \/ /\ on_ws_close
       /\ UNCHANGED dispatch_vars
    \/ on_ws_message
    \/ \E m \in Messages : handle_command_execute(m)
    \/ \E m \in Messages : handle_command_ack(m)

DispatchSpec == Init /\ [][DispatchNext]_vars

(***************************************************************************)
(* drone_controller.py, DroneController: execute_command and               *)
(* _notify_command_result                                                  *)
(***************************************************************************)
\* the commands execute_command tells apart: one that goes to a
\* sub-executor (arm, disarm, takeoff, land, set_mode, rtl, get_status, goto
\* with coordinates), goto without lat/lng, and an unknown command
ControllerCommands == {"arm", "goto_missing", "unknown"}

\* how the dispatch in the try block ends: a result with success True, one
\* with success False, or an exception (args of the wrong type, a result
\* without the key "success", an error in a sub-executor's own handler)
TryOutcomes(command) ==
    IF command = "arm" THEN {"success", "failure", "raises"}
    ELSE {"failure", "raises"}

\* status = "completed" if result["success"] else "failed"
result_status(success) == IF success THEN "completed" ELSE "failed"

\* an exception of the callback leaves _notify_command_result
notify_propagates(cb_raises) == ~cb_raises

\* _notify_command_result catches and logs an exception of the callback
notify_swallows(cb_raises) == TRUE

\* _notify_command_result: the callback, when one is set, is called once
notify_command_result(seq, status) ==
    IF command_result_callback THEN Append(seq, status) ELSE seq

connect_to_vehicle ==
    /\ \E ok \in BOOLEAN : vehicle' = (ok \/ vehicle)
    /\ UNCHANGED <<command_result_callback, exec_call, notified,
                   not_controller>>

controller_disconnect ==
    /\ vehicle' = FALSE
    /\ UNCHANGED <<command_result_callback, exec_call, notified,
                   not_controller>>

set_command_result_callback ==
    /\ command_result_callback' = TRUE
    /\ UNCHANGED <<vehicle, exec_call, notified, not_controller>>

\* execute_command up to its first await: without a vehicle it reports
\* "failed" and returns; otherwise it enters the try block
execute_command_begin(c) ==
    /\ exec_call[c].pc = "none"
    /\ \E command \in ControllerCommands :
         IF ~vehicle
         THEN /\ notified' = [notified EXCEPT ![c] =
                                 notify_command_result(@, "failed")]
              /\ exec_call' = [exec_call EXCEPT ![c] =
                                  [pc |-> "returned", command |-> command,
                                   path |-> "no_vehicle", success |-> FALSE,
                                   callback |-> command_result_callback]]
         ELSE /\ exec_call' = [exec_call EXCEPT ![c].pc = "running",
                                                ![c].command = command]
              /\ UNCHANGED notified
    /\ UNCHANGED <<vehicle, command_result_callback, not_controller>>

\* execute_command from the end of the dispatch to its return
execute_command_finish(c) ==
    /\ exec_call[c].pc = "running"
    /\ \E outcome \in TryOutcomes(exec_call[c].command),
          cb_raises \in BOOLEAN :
         LET success == outcome = "success"
             once == notify_command_result(notified[c],
                                           result_status(success))
         IN  IF outcome # "raises" /\ notify_swallows(cb_raises)
             THEN /\ notified' = [notified EXCEPT ![c] = once]
                  /\ exec_call' = [exec_call EXCEPT ![c] =
                         [@ EXCEPT !.pc = "returned", !.path = "try",
                                   !.success = success,
                                   !.callback = command_result_callback]]
             ELSE /\ notified' = [notified EXCEPT ![c] =
                         notify_command_result(
                             IF outcome = "raises" THEN notified[c] ELSE once,
                             "failed")]
                  /\ exec_call' = [exec_call EXCEPT ![c] =
                         [@ EXCEPT !.pc = "returned", !.path = "except",
                                   !.success = FALSE,
                                   !.callback = command_result_callback]]
    /\ UNCHANGED <<vehicle, command_result_callback, not_controller>>

ControllerNext ==
    \/ connect_to_vehicle
    \/ controller_disconnect
    \/ set_command_result_callback
    \/ \E c \in CommandIds : execute_command_begin(c)
    \/ \E c \in CommandIds : execute_command_finish(c)

ControllerSpec == Init /\ [][ControllerNext]_vars

(***************************************************************************)
(* telemetry_processor.py, TelemetryValidationRules and TelemetryProcessor *)
(***************************************************************************)
\* the (min, max) pairs of the rules the model follows
altitude == <<-1000, 50000>>
satellite_count == <<0, 12>>
battery_level == <<0, 100>>
battery_voltage == <<0, 30>>

\* What a sample is like apart from the fields the model follows:
\*   "ok"          every other field is there, well typed and in range, and
\*                 ts is within a minute of the clock
\*   "no_seq"      as "ok", but the required field seq is missing
\*   "bad_field"   velocity is not a dict, so a check of validate_telemetry
\*                 raises
\*   "no_velocity" as "ok", but there is no key velocity (it is not required)
\*   "bad_ts"      ts is there but is None, so the latency cannot be computed
Shapes == {"ok", "no_seq", "bad_field", "no_velocity", "bad_ts"}

Altitudes == {altitude[1] - 1, altitude[1], 0, altitude[2], altitude[2] + 1}
\* -1 is the marker of a missing battery level
Levels == {-5, -1, 50, battery_level[2] + 1}
Voltages == {-1, 12, battery_voltage[2] + 1}
Satellites == {-1, 8, satellite_count[2] + 1}

Has(seq, x) == \E k \in 1..Len(seq) : seq[k] = x

\* variant for the sensitivity of C28: the upper bound is exclusive
in_range_exclusive(rule, v) == rule[1] <= v /\ v < rule[2]

\* rule[0] <= v <= rule[1]
in_range(rule, v) == rule[1] <= v /\ v <= rule[2]

altitude_errors(sample) ==
    IF ~in_range(altitude, sample.alt) THEN <<"Invalid altitude">> ELSE <<>>

satellite_warnings(sample) ==
    IF ~in_range(satellite_count, sample.sats)
    THEN <<"Unusual satellite count">> ELSE <<>>

battery_level_errors(sample) ==
    IF sample.level >= 0 /\ ~in_range(battery_level, sample.level)
    THEN <<"Invalid battery level">> ELSE <<>>

battery_level_warnings(sample) ==
    IF sample.level >= 0 /\ in_range(battery_level, sample.level)
    THEN IF sample.level <= 10 THEN <<"Critical battery level">>
         ELSE IF sample.level <= 20 THEN <<"Low battery level">>
         ELSE <<>>
    ELSE <<>>

\* a voltage out of range is passed over unless it is positive
battery_voltage_warnings(sample) ==
    IF ~in_range(battery_voltage, sample.voltage) /\ sample.voltage > 0
    THEN <<"Unusual battery voltage">> ELSE <<>>

required_errors(sample) ==
    IF sample.shape = "no_seq" THEN <<"Missing required field">> ELSE <<>>

\* variant for the sensitivity of C27: every result is tagged valid
is_valid_always(errors) == TRUE

\* 'is_valid': len(errors) == 0
is_valid_of(errors) == Len(errors) = 0

\* validate_telemetry: the checks in the order of the code; an exception in
\* any of them replaces what was collected by one "Validation exception"
validate_telemetry(sample) ==
    IF sample.shape = "bad_field"
    THEN [is_valid |-> FALSE, errors |-> <<"Validation exception">>,
          warnings |-> <<>>]
    ELSE LET errors == altitude_errors(sample) \o battery_level_errors(sample)
                           \o required_errors(sample)
             warnings == satellite_warnings(sample)
                           \o battery_level_warnings(sample)
                           \o battery_voltage_warnings(sample)
         IN  [is_valid |-> is_valid_of(errors), errors |-> errors,
              warnings |-> warnings]

\* variant for the sensitivity of C30: the time goes on counting whatever
\* the previous sample's armed flag
continues_flight_always(last) == TRUE

\* self.last_telemetry.get('armed', False)
continues_flight(last) == last.armed

\* _add_derived_data, the flight time: continued from the last processed
\* sample while armed, 0 at the start of a flight and when disarmed
flight_time_of(sample, last) ==
    IF sample.armed /\ ~last.none
    THEN IF continues_flight(last)
         THEN (IF last.has_flight_time THEN last.flight_time ELSE 0)
                  + (sample.ts - last.ts)
         ELSE 0
    ELSE 0

\* _add_derived_data stops at data['velocity'][...] when the sample has no
\* key velocity: the KeyError is caught and the data goes back as it is
derives_flight_time(sample) == sample.shape # "no_velocity"

\* process_telemetry(telemetry_data) for a sample drawn from Samples
process_telemetry(Samples) ==
    /\ total_processed < MaxProcessed
    /\ \E sample \in Samples :
         IF sample.shape = "bad_ts"
         THEN \* the except branch: the sample goes back with an error flag
              /\ proc_call' = [NoProcCall EXCEPT
                     !.op = "process_telemetry", !.sample = sample,
                     !.returned = "error_data",
                     !.validation = [is_valid |-> FALSE,
                                     errors |-> <<"processing error">>,
                                     warnings |-> <<>>],
                     !.processing_error = TRUE]
              /\ UNCHANGED <<last_telemetry, telemetry_history,
                             total_processed>>
         ELSE LET validation == validate_telemetry(sample)
                  has == derives_flight_time(sample)
                  ft == IF has THEN flight_time_of(sample, last_telemetry)
                        ELSE 0
                  data == [armed |-> sample.armed, ts |-> sample.ts,
                           flight_time |-> ft, has_flight_time |-> has,
                           none |-> FALSE]
              IN  /\ proc_call' = [NoProcCall EXCEPT
                         !.op = "process_telemetry", !.sample = sample,
                         !.returned = "processed_data",
                         !.validation = validation,
                         !.has_flight_time = has, !.flight_time = ft]
                  /\ telemetry_history' = Append(telemetry_history, data)
                  /\ total_processed' = total_processed + 1
                  /\ last_telemetry' = data
    /\ UNCHANGED not_processor

\* samples that differ in what validate_telemetry looks at
ValidationSamples ==
    [ts : {1}, alt : Altitudes, level : Levels, voltage : Voltages,
     sats : Satellites, armed : {TRUE}, shape : Shapes]

\* samples that differ in what the flight time depends on
FlightSamples ==
    [ts : 0..MaxSampleTs, alt : {0}, level : {50}, voltage : {12},
     sats : {8}, armed : BOOLEAN, shape : {"ok", "no_velocity", "bad_ts"}]

\* validation does not look at the samples before: a run ends with the
\* first sample that is processed without a processing error
ValidationNext ==
    /\ process_telemetry(ValidationSamples)
    /\ total_processed' <= 1

ValidationSpec == Init /\ [][ValidationNext]_vars

FlightNext == process_telemetry(FlightSamples)

FlightSpec == Init /\ [][FlightNext]_vars

(***************************************************************************)
(* get_telemetry_data of main.py and of drone_controller.py: the sequence  *)
(* numbers. Each producer is read by one loop, one call after the other.   *)
(***************************************************************************)
\* how a read ends: there is no vehicle; an attribute of the vehicle raises;
\* the sample is built and returned
ReadOutcomes == {"no_vehicle", "raises", "ok"}

\* variant for the sensitivity of C31: the counter is left alone
sequence_number_kept(seq, outcome) == seq

\* main.py: self.sequence_number += 1 is the last statement before the
\* return, so a read that fails leaves the counter as it was
sequence_number_after(seq, outcome) == IF outcome = "ok" THEN seq + 1 ELSE seq

\* main.py: the sample carries the counter as it was before the increment;
\* {} is returned without a vehicle and from the except branch
main_get_telemetry_data ==
    /\ reads["main"] < MaxReads
    /\ \E outcome \in ReadOutcomes :
         /\ sequence_number' = sequence_number_after(sequence_number, outcome)
         /\ emitted' = [emitted EXCEPT !["main"] =
                           IF outcome = "ok" THEN Append(@, sequence_number)
                           ELSE @]
    /\ reads' = [reads EXCEPT !["main"] = @ + 1]
    /\ UNCHANGED <<seq_number, ws_connected, telemetry, replay, opens, ticks,
                   wire, controller_vars, not_producer>>

\* drone_controller.py: None without a vehicle; otherwise self.seq_number
\* += 1 is the first statement of the try block, the sample carries the
\* new value, and a read that raises later has used the number up
controller_get_telemetry_data ==
    /\ reads["controller"] < MaxReads
    /\ \E raises \in BOOLEAN :
         IF ~vehicle
         THEN UNCHANGED <<seq_number, emitted>>
         ELSE /\ seq_number' = seq_number + 1
              /\ emitted' = [emitted EXCEPT !["controller"] =
                                IF raises THEN @ ELSE Append(@, seq_number + 1)]
    /\ reads' = [reads EXCEPT !["controller"] = @ + 1]
    /\ UNCHANGED <<pipeline_vars, controller_vars, not_producer>>

ProducerNext ==
    \/ main_get_telemetry_data
    \/ controller_get_telemetry_data
    \/ /\ connect_to_vehicle
       /\ vehicle' # vehicle
    \/ /\ controller_disconnect
       /\ vehicle' # vehicle

ProducerSpec == Init /\ [][ProducerNext]_vars

(***************************************************************************)
(* main.py, DroneKitTelemetryClient: start, stop, telemetry_loop and       *)
(* send_heartbeat as loops that test self.running                          *)
(***************************************************************************)
\* variant for the sensitivity of C33: while True
loop_continues_always(run) == TRUE

\* while self.running
loop_continues(run) == run

\* start: self.running = True; when connect_to_drone fails it returns at
\* once; otherwise the WebSocketApp is created, the heartbeat thread is
\* started and telemetry_loop runs on the calling thread
start ==
    /\ ~running /\ stop_pc = "none"
    /\ running' = TRUE
    /\ \E drone_ok \in BOOLEAN :
         loop_pc' = IF drone_ok THEN [l \in Loops |-> "test"] ELSE loop_pc
    /\ UNCHANGED <<stop_pc, hb_call, pipeline_vars, not_pipeline_frame>>

\* stop, first statement: self.running = False
stop_flag ==
    /\ running /\ stop_pc = "none"
    /\ running' = FALSE
    /\ stop_pc' = "flag"
    /\ UNCHANGED <<loop_pc, hb_call, pipeline_vars, not_pipeline_frame>>

\* stop, the rest: self.ws.close() ends run_forever and with it the
\* reconnecting; self.vehicle.close()
stop_close ==
    /\ stop_pc = "flag"
    /\ stop_pc' = "closed"
    /\ ws_connected' = FALSE
    /\ UNCHANGED <<running, loop_pc, hb_call, sequence_number, telemetry,
                   replay, opens, ticks, wire, not_pipeline_frame>>

\* the test at the head of either loop
loop_test(l) ==
    /\ loop_pc[l] = "test"
    /\ loop_pc' = [loop_pc EXCEPT ![l] =
                      IF loop_continues(running) THEN "body" ELSE "stopped"]
    /\ UNCHANGED <<running, stop_pc, hb_call, pipeline_vars,
                   not_pipeline_frame>>

\* one pass of telemetry_loop's body: a sample is read and sent or
\* buffered, or the read gives nothing; then the sleep
telemetry_loop_body(SendOutcomes, DbOutcomes) ==
    /\ loop_pc["telemetry"] = "body"
    /\ \/ telemetry_tick(SendOutcomes, DbOutcomes)
       \/ UNCHANGED <<sequence_number, telemetry, ticks, wire>>
    /\ loop_pc' = [loop_pc EXCEPT !["telemetry"] = "test"]
    /\ UNCHANGED <<ws_connected, replay, opens, running, stop_pc, hb_call,
                   not_pipeline_frame>>

\* one pass of send_heartbeat's body: the heartbeat is sent when the socket
\* is connected; when ws.send raises the error is logged; then the sleep
send_heartbeat_body(SendOutcomes) ==
    /\ loop_pc["heartbeat"] = "body"
    /\ \E sendok \in SendOutcomes :
         hb_call' = [ret   |-> IF ~ws_connected THEN "skipped"
                               ELSE IF sendok THEN "sent" ELSE "failed",
                     opens |-> opens]
    /\ loop_pc' = [loop_pc EXCEPT !["heartbeat"] = "test"]
    /\ UNCHANGED <<running, stop_pc, pipeline_vars, not_pipeline_frame>>

\* run_forever(reconnect=5) opens the socket, again after a close, until
\* ws.close() is called
lifecycle_on_ws_open(SendOutcomes) ==
    /\ loop_pc["telemetry"] # "idle"
    /\ stop_pc # "closed"
    /\ on_ws_open(SendOutcomes)

\* To keep the runs small: the database does not fail, the samples all have
\* ts 1, the loop reads two samples and then nothing, the socket opens once.
lifecycle_telemetry_loop_body ==
    /\ telemetry_loop_body(BOOLEAN, {TRUE})
    /\ sequence_number' <= 2
    /\ \A id \in 1..Len(telemetry') : telemetry'[id].ts = 1
    /\ \A k \in 1..Len(wire') : wire'[k].ts = 1

LifecycleNext ==
    \/ start
    \/ stop_flag
    \/ stop_close
    \/ \E l \in Loops : loop_test(l)
    \/ lifecycle_telemetry_loop_body
    \/ send_heartbeat_body(BOOLEAN)
    \/ /\ lifecycle_on_ws_open({TRUE})
       /\ opens' <= 1
    \/ on_ws_close
    \/ \E t \in Threads : send_buffered_data_select(t, {TRUE})
    \/ \E t \in Threads : send_buffered_data_row(t, BOOLEAN, {TRUE})

\* the threads of the two loops and of stop() are scheduled; a pass of a
\* loop body ends (its sends and its sleep return)
LifecycleSpec ==
    /\ Init
    /\ [][LifecycleNext]_vars
    /\ \A l \in Loops : WF_vars(loop_test(l))
    /\ WF_vars(lifecycle_telemetry_loop_body)
    /\ WF_vars(send_heartbeat_body(BOOLEAN))
    /\ WF_vars(stop_close)

(***************************************************************************)
(* Vocabulary of the claims on TelemetryDatabase                           *)
(***************************************************************************)
RowOf(id) == CHOOSE r \in db_telemetry : r.id = id
Unsent == {r \in db_telemetry : ~r.sent}
Returned == {db_call.rows[k].id : k \in 1..Len(db_call.rows)}

\* a step that is a call of mark_telemetry_sent (every other call leaves
\* its own name in db_call)
MarkStep ==
    /\ db_call'.op = "mark_telemetry_sent"
    /\ <<db_telemetry, db_call>>' # <<db_telemetry, db_call>>

\* a step that is a call of update_command_status
UpdateStep ==
    /\ cmd_call'.op = "update_command_status"
    /\ <<db_commands, cmd_call, db_now>>' # <<db_commands, cmd_call, db_now>>

(***************************************************************************)
(* C4  get_unsent_telemetry(limit), when the query went through, returns   *)
(* at most limit records, each the record of an unsent row (so no sent row *)
(* is returned), none twice, in ascending timestamp order, and they are    *)
(* the min(limit, number of unsent rows) unsent rows of smallest timestamp.*)
(***************************************************************************)
C4_UnsentQueryResult ==
    (db_call.op = "get_unsent_telemetry" /\ db_call.ret = "list") =>
        LET rows == db_call.rows
            n == Len(rows)
        IN  /\ n <= db_call.limit
            /\ n = (IF Cardinality(Unsent) < db_call.limit
                    THEN Cardinality(Unsent) ELSE db_call.limit)
            /\ \A k \in 1..n :
                   \E r \in Unsent : r.id = rows[k].id
                                     /\ r.timestamp = rows[k].timestamp
            /\ \A j, k \in 1..n : j < k =>
                   /\ rows[j].id # rows[k].id
                   /\ rows[j].timestamp <= rows[k].timestamp
            /\ \A u \in Unsent : u.id \notin Returned =>
                   \A k \in 1..n : rows[k].timestamp <= u.timestamp

\* a backlog larger than the limit, a sent row beside it, and timestamps
\* that do not follow the ids
C4_Witness ==
    /\ db_call.op = "get_unsent_telemetry"
    /\ db_call.ret = "list"
    /\ db_call.limit = 2
    /\ Len(db_call.rows) = 2
    /\ db_call.rows[1].id > db_call.rows[2].id
    /\ Cardinality(Unsent) > 2
    /\ \E r \in db_telemetry : r.sent

(***************************************************************************)
(* C6  mark_telemetry_sent is idempotent: a second call with the same id   *)
(* set, right after a first one that returned True, leaves the table as    *)
(* the first left it; a call all of whose ids are already sent changes     *)
(* nothing and, its statement committing, returns True; and no call        *)
(* touches a row whose id is outside the given set, nor adds or removes a  *)
(* row.                                                                    *)
(***************************************************************************)
C6_MarkSentIdempotent ==
    [][MarkStep =>
        LET AlreadySent == \A r \in db_telemetry : r.id \in db_call'.ids => r.sent
        IN  /\ db_call'.repeat => AlreadySent
            /\ AlreadySent =>
                  /\ db_telemetry' = db_telemetry
                  /\ db_call'.outcome = "commit" => db_call'.ret = "True"
            /\ \A r \in db_telemetry : r.id \notin db_call'.ids => r \in db_telemetry'
            /\ {r.id : r \in db_telemetry'} = {r.id : r \in db_telemetry}]_vars

\* the second of two equal calls has returned True; the set named rows that
\* were unsent before the first call, and another row is still unsent
C6_Witness ==
    /\ db_call.op = "mark_telemetry_sent"
    /\ db_call.repeat
    /\ db_call.ret = "True"
    /\ Cardinality(db_call.ids \cap {r.id : r \in db_telemetry}) >= 2
    /\ \A r \in db_telemetry : r.id \in db_call.ids => r.sent
    /\ \E r \in db_telemetry : r.id \notin db_call.ids /\ ~r.sent

(***************************************************************************)
(* C7  mark_telemetry_sent is all-or-nothing: after a call, whether it     *)
(* returned, raised inside or was cut short by a crash, either every row   *)
(* of the id set is marked sent or the table is as it was; and when the    *)
(* call returns False the table is as it was.                              *)
(***************************************************************************)
C7_MarkSentAllOrNothing ==
    [][MarkStep =>
        /\ \/ db_telemetry' = db_telemetry
           \/ \A r \in db_telemetry' : r.id \in db_call'.ids => r.sent
        /\ db_call'.ret = "False" => db_telemetry' = db_telemetry]_vars

\* a call naming two unsent rows has returned False and both are unsent
C7_Witness ==
    /\ db_call.op = "mark_telemetry_sent"
    /\ db_call.ret = "False"
    /\ Cardinality({r \in Unsent : r.id \in db_call.ids}) >= 2

(***************************************************************************)
(* C9  update_command_status on a command whose status is completed or     *)
(* failed is rejected: the call returns False and the row is left as it    *)
(* was (status, result, executed_at).                                      *)
(***************************************************************************)
C9_TerminalUpdateRejected ==
    [][UpdateStep =>
        \A c \in db_commands :
            (c.id = cmd_call'.id /\ c.status \in Terminal) =>
                (cmd_call'.ret = "False" /\ c \in db_commands')]_vars

(***************************************************************************)
(* C10  Command status is monotonic along pending -> in_progress ->        *)
(* {completed, failed}: no step moves a command's status backwards, nor    *)
(* from one terminal status to the other.                                  *)
(***************************************************************************)
Rank(status) ==
    IF status = "pending" THEN 0 ELSE IF status = "in_progress" THEN 1 ELSE 2

C10_StatusMonotonic ==
    [][\A c \in db_commands : \A c2 \in db_commands' :
          c2.id = c.id =>
              /\ Rank(c.status) <= Rank(c2.status)
              /\ c.status \in Terminal => c2.status = c.status]_vars

(***************************************************************************)
(* Vocabulary of the claims on cleanup_old_data                            *)
(***************************************************************************)
\* a step that is a call of cleanup_old_data
CleanupStep ==
    /\ db_call'.op = "cleanup_old_data"
    /\ cmd_call'.op = "cleanup_old_data"
    /\ <<db_telemetry, db_commands, db_logs, db_call, cmd_call, cleanup_call>>'
           # <<db_telemetry, db_commands, db_logs, db_call, cmd_call, cleanup_call>>

TelemetryIds == {r.id : r \in db_telemetry}
AssignedIds == {db_ids[k] : k \in 1..Len(db_ids)}

(***************************************************************************)
(* C11  cleanup_old_data never deletes a telemetry row with sent = false   *)
(* nor a command with status pending, whatever the row's age and the days  *)
(* argument (0 included): every such row is still there, unchanged, after  *)
(* the call.                                                               *)
(***************************************************************************)
C11_CleanupKeepsUnsentAndPending ==
    [][CleanupStep =>
        /\ \A r \in db_telemetry : ~r.sent => r \in db_telemetry'
        /\ \A c \in db_commands : c.status = "pending" => c \in db_commands']_vars

\* cleanup_old_data(0) has returned True and has deleted a telemetry row,
\* while an unsent row and a pending command, both older than the threshold
\* (the command by its executed_at), are still there
C11_Witness ==
    /\ db_call.op = "cleanup_old_data"
    /\ cleanup_call.ret = "True"
    /\ cleanup_call.days = 0
    /\ AssignedIds \ TelemetryIds # {}
    /\ \E r \in db_telemetry : ~r.sent /\ r.created_at < db_now
    /\ \E c \in db_commands :
           c.status = "pending" /\ c.executed_at # 0 /\ c.executed_at < db_now

(***************************************************************************)
(* C12  Every command deleted by cleanup_old_data has a terminal status    *)
(* (completed or failed) and is older than the threshold; in particular a  *)
(* command that is in_progress is never deleted.                           *)
(***************************************************************************)
C12_CleanupDeletesOnlyTerminalCommands ==
    [][CleanupStep =>
        \A c \in db_commands : c \notin db_commands' =>
            /\ c.status \in Terminal
            /\ c.executed_at < cleanup_threshold(db_now, cleanup_call'.days)]_vars

(***************************************************************************)
(* C13  The ids store_telemetry assigns are unique and strictly increasing *)
(* in insertion order, whatever calls come between two inserts and         *)
(* whatever cleanup_old_data has deleted: an id is never assigned twice,   *)
(* and every row carries an id that was assigned once.                     *)
(***************************************************************************)
C13_IdsStrictlyIncreasing ==
    /\ \A j, k \in 1..Len(db_ids) : j < k => db_ids[j] < db_ids[k]
    /\ TelemetryIds \subseteq AssignedIds
    /\ Cardinality(db_telemetry) = Cardinality(TelemetryIds)

\* a store_telemetry has just returned True after cleanup_old_data deleted
\* the row of the largest id assigned before it
C13_Witness ==
    /\ db_call.op = "store_telemetry"
    /\ db_call.ret = "True"
    /\ Len(db_ids) >= 2
    /\ db_ids[Len(db_ids) - 1] \notin TelemetryIds
    /\ db_ids[Len(db_ids)] \in TelemetryIds

(***************************************************************************)
(* Vocabulary of the claims on WebSocketClient                             *)
(***************************************************************************)
\* a step in which socket s's callback thread begins a reconnect sleep
SleepStep(s) == sock[s].cb = "incr" /\ sock'[s].cb = "sleep"

\* a step that is socket s's _on_close
CloseStep(s) == sock[s].st # "closed" /\ sock'[s].st = "closed"

\* a step in which a connect() is started
ConnectStarted == ws' # ws

(***************************************************************************)
(* C14  The waits of the reconnect sleeps start at the floor of 5 s and,   *)
(* from one sleep to the next with no connection opened in between, each   *)
(* wait is min(2 * previous wait, 60); no wait exceeds the ceiling of 60.  *)
(* (Stated of a client that has not been told to disconnect.)              *)
(***************************************************************************)
C14_BackoffWaitSequence ==
    [][\A s \in Socks : (SleepStep(s) /\ ~shutdown) =>
          /\ last_wait = 0 => last_wait' = 5
          /\ (last_wait # 0 /\ ~opened_since) =>
                 last_wait' = (IF 2 * last_wait < 60 THEN 2 * last_wait ELSE 60)
          /\ last_wait' <= 60]_vars

(***************************************************************************)
(* C15  A successful connect resets the backoff interval to its floor:     *)
(* the first reconnect sleep after a socket has opened waits 5 s, however  *)
(* many reconnects failed before. (Stated of a client that has not been    *)
(* told to disconnect.)                                                    *)
(***************************************************************************)
C15_ConnectResetsBackoff ==
    [][\A s \in Socks :
          (SleepStep(s) /\ opened_since /\ ~shutdown) => last_wait' = 5]_vars

(***************************************************************************)
(* C16  Whenever the session has become connected, reconnect_attempts is 0 *)
(* by the time the next disconnection is handled: when _on_error or        *)
(* _on_close runs for a socket that is open, the counter is 0. (Stated of  *)
(* a client that has not been told to disconnect.)                         *)
(***************************************************************************)
C16_ConnectedResetsAttempts ==
    [][\A s \in Socks :
          (/\ sock[s].st = "open"
           /\ sock'[s].st \in {"errored", "closed"}
           /\ ~shutdown) => reconnect_attempts = 0]_vars

(***************************************************************************)
(* C17  Every transition of the session to connected starts a replay of    *)
(* the unsent buffered records: the step that connects the socket spawns   *)
(* the send_buffered_data thread of that connection.                       *)
(***************************************************************************)
C17_EveryOpenTriggersReplay ==
    [][(~ws_connected /\ ws_connected') => replay'[opens'].pc = "spawned"]_vars

(***************************************************************************)
(* C18  Giving up is final and comes only at the limit: _attempt_reconnect *)
(* gives up only when reconnect_attempts has reached                       *)
(* max_reconnect_attempts, and once it has given up no connect() is        *)
(* started, no reconnect sleep begins and the session does not become      *)
(* connected again. (Stated of a client that is not told to disconnect.)   *)
(***************************************************************************)
C18_GiveUpIsFinal ==
    [][/\ (~gave_up /\ gave_up') => reconnect_attempts >= MaxReconnectAttempts
       /\ (gave_up /\ ~shutdown') =>
             /\ ~ConnectStarted
             /\ \A s \in Socks : ~SleepStep(s)
             /\ connected' => connected]_vars

(***************************************************************************)
(* C19  Only an error close triggers reconnection: _on_close with the      *)
(* normal close code 1000 does not call _attempt_reconnect (the callback   *)
(* thread is done, the counter and self.ws are untouched), _on_close with  *)
(* any other code calls it, and a call that finds the counter under the    *)
(* limit goes on to the attempt while one that finds the limit reached     *)
(* returns.                                                                *)
(***************************************************************************)
C19_OnlyErrorCloseReconnects ==
    [][\A s \in Socks :
          /\ CloseStep(s) =>
                /\ sock'[s].code = "1000" =>
                       /\ sock'[s].cb = "idle"
                       /\ reconnect_attempts' = reconnect_attempts
                       /\ ~ConnectStarted
                /\ sock'[s].code # "1000" => sock'[s].cb = "check"
          /\ (sock[s].cb = "check" /\ sock'[s].cb # "check") =>
                (sock'[s].cb = "incr" <=>
                     reconnect_attempts < MaxReconnectAttempts)]_vars

\* one socket was closed with code 1000 and its thread is done, with no
\* attempt counted; another was closed with another code and its thread is
\* in the reconnect sleep
C19_Witness ==
    \E s, t \in Socks :
        /\ sock[s].st = "closed" /\ sock[s].code = "1000" /\ sock[s].cb = "idle"
        /\ sock[t].st = "closed" /\ sock[t].code = "other" /\ sock[t].cb = "sleep"
        /\ reconnect_attempts = 1

(***************************************************************************)
(* C20  After disconnect() has been called no reconnect attempt is         *)
(* started (no reconnect sleep begins, no connect() is started) and the    *)
(* session does not become connected again, whatever the sockets report.   *)
(***************************************************************************)
C20_NoReconnectAfterShutdown ==
    [][shutdown =>
          /\ ~ConnectStarted
          /\ \A s \in Socks : ~SleepStep(s)
          /\ connected' => connected]_vars

(***************************************************************************)
(* C21  A send attempted while the session is not connected fails and      *)
(* changes nothing: send_telemetry and send_command_ack, called while      *)
(* self.connected is false, return False, hand no message to the socket    *)
(* and leave connected, reconnect_attempts and reconnect_interval as they  *)
(* were.                                                                   *)
(***************************************************************************)
C21_SendWhileDisconnectedFails ==
    [][(send_call' # send_call \/ ws_sent' # ws_sent) =>
          /\ send_call'.op \in {"send_telemetry", "send_command_ack"}
          /\ ~connected =>
                /\ send_call'.ret = "False"
                /\ ws_sent' = ws_sent
                /\ UNCHANGED <<connected, reconnect_attempts,
                               reconnect_interval>>]_vars

\* send_command_ack has returned False with the flag cleared, although the
\* socket in self.ws is open and has carried a message before
C21_Witness ==
    /\ send_call = [op |-> "send_command_ack", ret |-> "False"]
    /\ ~connected
    /\ ws # 0
    /\ sock[ws].st = "open"
    /\ ws_sent = 1

(***************************************************************************)
(* C22  Sampling continues while the transport is disconnected or backing  *)
(* off: every tick taken while the socket is not connected buffers its     *)
(* sample, a backoff sleep being under way or not; and with the sampling   *)
(* thread scheduled fairly, from any state in which the socket is not      *)
(* connected or a backoff sleep is under way the next tick comes, however  *)
(* long the sleep or the disconnection lasts.                              *)
(***************************************************************************)
C22_SamplingContinues ==
    /\ [](\A k \in 1..Len(ticks) :
             ticks[k].live = "skip" => ticks[k].store = "ok")
    /\ \A n \in 0..(MaxSamples - 1) :
          (sequence_number = n /\ (~ws_connected \/ InBackoffSleep))
              ~> (sequence_number > n)

\* two ticks in a row were taken offline during a backoff sleep, and both
\* samples are in the buffer, unsent
C22_Witness ==
    /\ Len(ticks) >= 2
    /\ \A k \in {Len(ticks) - 1, Len(ticks)} :
           /\ ticks[k].live = "skip"
           /\ ticks[k].backoff
           /\ ticks[k].store = "ok"
    /\ InBufferUnsent(sequence_number - 1)
    /\ InBufferUnsent(sequence_number - 2)

(***************************************************************************)
(* Vocabulary of the claims on main.py's command handling                  *)
(***************************************************************************)
CommandRows == 1..Len(commands)

\* a step in which the execution of message m's command starts
ExecutionStarts(m) ==
    cmd_thread[m].pc = "spawned" /\ cmd_thread'[m].pc # "spawned"

(***************************************************************************)
(* C23  A received command is recorded as pending before it is dispatched: *)
(* when the execution of a command starts, the table commands holds a row  *)
(* of that command that is not yet executed; and on_ws_message returns     *)
(* without executing the command (it leaves the command to a thread).      *)
(***************************************************************************)
C23_PendingRecordBeforeDispatch ==
    [][\A m \in Messages :
          /\ ExecutionStarts(m) =>
                \E k \in CommandRows :
                    commands[k].cmd = m /\ ~commands[k].executed
          /\ cmd_thread[m].pc = "none" =>
                cmd_thread'[m].pc \in {"none", "spawned", "ignored"}]_vars

(***************************************************************************)
(* C25  A command whose execution failed is, once its handler is done,     *)
(* recorded in the table commands as not executed (failed), acknowledged   *)
(* to the remote party, whatever the state of the socket when the          *)
(* execution finished, and has not been executed a second time (it has no  *)
(* second row).                                                            *)
(***************************************************************************)
C25_FailedCommandRecordedAndAcked ==
    \A m \in Messages :
        (cmd_thread[m].pc = "done" /\ ~execute_success(cmd_thread[m].outcome)) =>
            /\ \E k \in CommandRows :
                   commands[k].cmd = m /\ ~commands[k].executed
            /\ m \in acked
            /\ Cardinality({k \in CommandRows : commands[k].cmd = m}) <= 1

(***************************************************************************)
(* C24  Every call of execute_command reports its terminal status exactly  *)
(* once: when the call has returned, the command-result callback (one      *)
(* being registered) has been invoked one time for that command id, with   *)
(* "completed" if the result has success = true and "failed" otherwise,    *)
(* on the vehicle-not-connected, unknown-command and exception paths too;  *)
(* while the call is running the callback has not been invoked for it.     *)
(***************************************************************************)
C24_ResultReportedExactlyOnce ==
    \A c \in CommandIds :
        /\ (exec_call[c].pc = "returned" /\ exec_call[c].callback) =>
               notified[c] = <<result_status(exec_call[c].success)>>
        /\ exec_call[c].pc # "returned" => notified[c] = <<>>
        /\ exec_call[c].path \in {"no_vehicle", "except"} =>
               ~exec_call[c].success
        /\ (exec_call[c].pc = "returned"
               /\ exec_call[c].command \in {"goto_missing", "unknown"}) =>
               ~exec_call[c].success

C24_Witness ==
    /\ exec_call[1].pc = "returned" /\ exec_call[1].callback
    /\ exec_call[1].path = "try" /\ exec_call[1].success
    /\ notified[1] = <<"completed">>
    /\ exec_call[2].pc = "returned" /\ exec_call[2].callback
    /\ exec_call[2].path = "except"
    /\ notified[2] = <<"failed">>

(***************************************************************************)
(* C26  Once a command has been completed or failed it is not dispatched   *)
(* again: after any sequence of store_command, update_command_status and   *)
(* get_pending_commands calls, get_pending_commands returns no command     *)
(* that has been in a terminal status.                                     *)
(***************************************************************************)
C26_TerminalNeverPendingAgain ==
    cmd_call.op = "get_pending_commands" =>
        \A k \in 1..Len(cmd_call.rows) : cmd_call.rows[k] \notin was_terminal

(***************************************************************************)
(* Vocabulary of the claims on TelemetryProcessor                          *)
(***************************************************************************)
Processed == proc_call.op = "process_telemetry"

\* validate_telemetry ran to its return statement
ValidationCompleted ==
    /\ Processed
    /\ proc_call.returned = "processed_data"
    /\ proc_call.sample.shape # "bad_field"

(***************************************************************************)
(* C27  Validation never drops a sample: whatever the sample, valid,       *)
(* out of range, lacking a field or malformed, process_telemetry returns   *)
(* (it does not raise), what it returns is the sample with a validation    *)
(* result, and is_valid is true exactly when the error list is empty.      *)
(***************************************************************************)
C27_ValidationNeverDrops ==
    Processed =>
        /\ proc_call.returned \in {"processed_data", "error_data"}
        /\ proc_call.validation.is_valid = (proc_call.validation.errors = <<>>)
        /\ proc_call.validation.is_valid =>
               /\ in_range(altitude, proc_call.sample.alt)
               /\ proc_call.sample.shape \in {"ok", "no_velocity"}

C27_Witness ==
    /\ Processed
    /\ proc_call.sample.alt > altitude[2]
    /\ proc_call.sample.shape = "no_seq"
    /\ proc_call.returned = "processed_data"
    /\ ~proc_call.validation.is_valid
    /\ Len(proc_call.validation.errors) = 2

(***************************************************************************)
(* C28  The altitude bound is inclusive: validation reports "Invalid       *)
(* altitude" exactly when altitude < -1000 or altitude > 50000, so 50001   *)
(* is an error and 50000 and -1000 are not. (Stated for samples on which   *)
(* validate_telemetry runs to its end.)                                    *)
(***************************************************************************)
C28_AltitudeBoundInclusive ==
    ValidationCompleted =>
        (Has(proc_call.validation.errors, "Invalid altitude")
            <=> (proc_call.sample.alt < -1000 \/ proc_call.sample.alt > 50000))

C28_Witness ==
    /\ ValidationCompleted
    /\ proc_call.sample.alt = 50000
    /\ ~Has(proc_call.validation.errors, "Invalid altitude")
    /\ last_telemetry.ts = proc_call.sample.ts

(***************************************************************************)
(* C29  Every numeric field outside its bound is reported, as an error or  *)
(* as a warning: a battery level outside [0,100] other than the missing    *)
(* marker -1, a battery voltage outside [0,30] and a satellite count       *)
(* outside [0,12], negative values included.                               *)
(***************************************************************************)
C29_OutOfRangeReported ==
    ValidationCompleted =>
        LET sample == proc_call.sample
            said == proc_call.validation.errors \o proc_call.validation.warnings
        IN  /\ (sample.level # -1 /\ (sample.level < 0 \/ sample.level > 100))
                   => Has(said, "Invalid battery level")
            /\ (sample.voltage < 0 \/ sample.voltage > 30)
                   => Has(said, "Unusual battery voltage")
            /\ (sample.sats < 0 \/ sample.sats > 12)
                   => Has(said, "Unusual satellite count")

C31_SeqStrictlyIncreases ==
    \A p \in Producers :
        \A i, j \in 1..Len(emitted[p]) :
            i < j => emitted[p][i] < emitted[p][j]

C31_Witness ==
    /\ Len(emitted["main"]) = 2
    /\ reads["main"] = 3
    /\ Len(emitted["controller"]) = 2
    /\ emitted["controller"][2] = emitted["controller"][1] + 2

(***************************************************************************)
(* C32  A failed buffer write is retried: a sample whose INSERT raised is  *)
(* written again on the loop's next tick, so once the loop has gone on to  *)
(* the next sample it is in the buffer and has not been discarded. (That   *)
(* the loop keeps running shows in the next sample being produced.)        *)
(***************************************************************************)
C32_FailedWriteRetried ==
    \A s \in Produced :
        (ticks[s + 1].store = "error" /\ (s + 1) \in Produced) => InBuffer(s)

(***************************************************************************)
(* Vocabulary of the claims on start, stop and the loops                   *)
(***************************************************************************)
LoopsStopped == \A l \in Loops : loop_pc[l] \in {"idle", "stopped"}

\* a step in which telemetry_loop attempted a live send
TelemetrySendStep ==
    /\ Len(ticks') = Len(ticks) + 1
    /\ ticks'[Len(ticks')].live \in {"ok", "fail"}

\* a step in which send_heartbeat attempted a send
HeartbeatSendStep ==
    /\ loop_pc["heartbeat"] = "body" /\ loop_pc'["heartbeat"] = "test"
    /\ hb_call'.ret \in {"sent", "failed"}

(***************************************************************************)
(* C33  A shutdown stops all loops: once stop() has been called, neither   *)
(* telemetry_loop nor send_heartbeat starts another pass, so each ends     *)
(* after at most the pass it is in, and both do end; stop() closes the     *)
(* transport, which is not opened again; and once stop() has returned and  *)
(* the loops have ended, no sample is sent or buffered any more.           *)
(***************************************************************************)
C33_StopStopsAllLoops ==
    /\ [][stop_pc # "none" =>
             \A l \in Loops : ~(loop_pc[l] = "test" /\ loop_pc'[l] = "body")]_vars
    /\ (stop_pc # "none") ~> (LoopsStopped /\ stop_pc = "closed")
    /\ [](stop_pc = "closed" => ~ws_connected)
    /\ [][(stop_pc = "closed" /\ LoopsStopped) =>
             (wire' = wire /\ telemetry' = telemetry /\ ticks' = ticks
                /\ hb_call' = hb_call)]_vars

C33_Witness ==
    /\ stop_pc = "closed"
    /\ \A l \in Loops : loop_pc[l] = "stopped"
    /\ Len(wire) >= 1
    /\ ticks # <<>> /\ ticks[Len(ticks)].store = "ok"
    /\ \E t \in Threads : replay[t].pc = "loop"

(***************************************************************************)
(* C35  A failed heartbeat send is a disconnection signal: after send_     *)
(* heartbeat's send has failed, no heartbeat and no telemetry is sent on   *)
(* the same connection; the session first leaves the connected state.      *)
(* Heartbeats are attempted only while the socket is connected.            *)
(***************************************************************************)
C35_HeartbeatFailureDisconnects ==
    [][/\ (hb_call.ret = "failed" /\ hb_call.opens = opens /\ ws_connected)
            => ~(TelemetrySendStep \/ HeartbeatSendStep)
       /\ HeartbeatSendStep => ws_connected]_vars

(***************************************************************************)
(* C34  End to end, nothing failing: when N samples were produced while    *)
(* the session was offline (N rows buffered, all unsent) and the session   *)
(* is then connected and stays so, the unsent count becomes 0; replay      *)
(* transmits in the original order (ascending seq); and a sample produced  *)
(* while connected is transmitted in its own tick and is not in the        *)
(* buffer.                                                                 *)
(***************************************************************************)
UnsentCount == Cardinality({id \in Rows : ~telemetry[id].sent})

OfflineBacklog(n) ==
    /\ sequence_number = n
    /\ Len(telemetry) = n
    /\ UnsentCount = n
    /\ \A s \in Produced : ticks[s + 1].live = "skip"

C34_OfflineBacklogReplayedThenLive ==
    /\ \A n \in 1..MaxSamples :
          (OfflineBacklog(n) /\ ws_connected)
              ~> (UnsentCount = 0 \/ ~ws_connected)
    /\ [](\A n \in 1..MaxSamples :
            (opens = 1 /\ Len(telemetry) = n /\ Len(wire) >= n
               /\ \A k \in 1..n : wire[k].via = "replay")
                => \A k \in 1..n : wire[k].seq = k - 1)
    /\ [](\A s \in Produced :
            ticks[s + 1].live = "ok" => (LiveSendReturned(s) /\ ~InBuffer(s)))

(***************************************************************************)
(* C36  reconnect_attempts never exceeds max_reconnect_attempts, whatever  *)
(* the interleaving of the error and close callbacks of the connection     *)
(* threads.                                                                *)
(***************************************************************************)
C36_AttemptsNeverExceedLimit == reconnect_attempts <= MaxReconnectAttempts

(***************************************************************************)
(* C37  One transport failure triggers one reconnect attempt: the close    *)
(* that follows a socket's error does not call _attempt_reconnect a second *)
(* time (so the counter goes up by one and the interval is doubled once    *)
(* for the failure), and at most one connection attempt is in flight at    *)
(* any time.                                                               *)
(***************************************************************************)
InFlight == {s \in Socks : sock[s].st = "connecting"}

C37_OneFailureOneReconnect ==
    /\ [][\A s \in Socks :
            (sock[s].st = "errored" /\ CloseStep(s)) => sock'[s].cb = "idle"]_vars
    /\ [](Cardinality(InFlight) <= 1)

(***************************************************************************)
(* C39  The connected flag reflects the current socket: whenever connected *)
(* is true the socket stored in self.ws is open, and while that socket is  *)
(* open an error or close callback of an older socket neither clears       *)
(* connected nor calls _attempt_reconnect.                                 *)
(***************************************************************************)
\* a step that is socket s's _on_error
ErrorStep(s) == sock[s].st # "errored" /\ sock'[s].st = "errored"

C39_FlagReflectsCurrentSocket ==
    /\ [](connected => (ws # 0 /\ sock[ws].st = "open"))
    /\ [][\A s \in Socks :
            (s < ws /\ sock[ws].st = "open" /\ (ErrorStep(s) \/ CloseStep(s)))
               => (connected' = connected /\ sock'[s].cb = "idle")]_vars

(***************************************************************************)
(* C38  On every connection drone_connect is the first message sent: no    *)
(* telemetry or command_ack message of another thread goes out on a socket *)
(* before _on_open has sent the handshake on it.                           *)
(***************************************************************************)
C38_HandshakeFirst ==
    \A s \in Socks : first_message[s] \in {"none", "drone_connect"}

(***************************************************************************)
(* C40  Replay runs do not overlap on the same records: a replay run       *)
(* transmits a row only while the row is unsent, so a row that one run has *)
(* sent and marked is not transmitted again by another run that selected   *)
(* it before the mark.                                                     *)
(***************************************************************************)
\* a step in which a replay run transmits the row of buffer id
ReplayTransmits(id) ==
    /\ Len(wire') = Len(wire) + 1
    /\ wire'[Len(wire')].via = "replay"
    /\ wire'[Len(wire')].id = id

C40_ReplayRunsDoNotOverlap ==
    [][\A id \in 1..MaxSamples :
          ReplayTransmits(id) => ~telemetry[id].sent]_vars

====
